---- MODULE Spec2Model ----
(***************************************************************************)
(* Last-known-position tracking of the ESP32 GPS follower.                 *)
(*                                                                         *)
(*   server  : Server/index.js  (src/unnamed/part_001, lines 1-267; the    *)
(*             lines after 267 are an older copy of the same file)         *)
(*   viewer  : Server/public/tracker.js                                    *)
(*   device  : ESP32/client.c                                              *)
(*                                                                         *)
(* JavaScript values are tagged records, so that values of different       *)
(* kinds can be compared: Undefined, Null, NaN, Num(n), Str(s), and        *)
(* Iso(t), the ISO-8601 string Date.prototype.toISOString gives for the    *)
(* instant t (milliseconds).  Time is one wall clock, `now`, in ms.        *)
(***************************************************************************)
EXTENDS Integers, Sequences, FiniteSets, TLC

VARIABLES
    now,            \* wall clock, ms
    envApiKey,      \* process.env.API_KEY of the server process
    latestGPSData,  \* index.js: let latestGPSData (Null or the fix record)
    gpsFile,        \* ./latest-gps.json: NoFile or the JSON document
    wifiFile,       \* ./wifi.json: NoFile or the list of networks
    res,            \* the server's latest HTTP response [op, code, body]
    atRestart,      \* observation: the fix the durable document held when the
                    \* process last restarted (NoFile: none, or a fix packet
                    \* has been accepted since)
    accepted,       \* observation: whether a packet has been accepted: "never",
                    \* "this run" (since the process started) or "earlier run"
    eventLoop,      \* Node's event loop: the ingest requests that have arrived
                    \* and wait for their handler, and the handler that is
                    \* running, with its position
    popupData,      \* tracker.js: whether config.tracker.popupData shows the
                    \* coordinates and the altitude in the marker's popup
    viewer,         \* tracker.js: the fields of each open GPSTracker page
    lastPoll,       \* observation: what each page's latest poll fetched, and when
    classified,     \* observation: the values each page's status was last
                    \* computed from
    devPc,          \* client.c: "off", "loop" (top of loop), "connect" (inside
                    \* connectWiFi, when its steps are followed one by one) or
                    \* "report" (line 173)
    bootAt,         \* the wall clock when the device booted: millis() = now - bootAt
    wifiStatus,     \* the SSID WiFi.status() is WL_CONNECTED to, or "none"
    inBackoff,      \* client.c: bool inBackoff
    lastReconnectAttempt,   \* client.c: unsigned long lastReconnectAttempt
    dynamicNetworks,        \* client.c: std::vector<WifiNetwork> dynamicNetworks
    spiffsWifi,     \* /wifi.json on the device's flash: NoFile or a list
    spiffsMounted,  \* whether SPIFFS.begin succeeded at the latest boot
    attempt,        \* the position inside connectWiFi and tryConnect while their
                    \* steps are followed one by one; NoAttempt otherwise
    devLog,         \* observation: the device's latest step, its memory before
                    \* and after it, and the attempts and requests it made
    gps,            \* TinyGPSPlus gps: the location last committed, and when
    gpsSignal,      \* the position the receiver's sentences carry now, or Null
    inRange,        \* the access points in range, each with its password
    pushed,         \* observation: the device's latest push and its HTTP code
    noFixSince      \* observation: since when the device has been connected
                    \* without a GPS position (Null: it is not)

serverVars == <<envApiKey, latestGPSData, gpsFile, wifiFile, res, atRestart, accepted,
                eventLoop>>
viewerVars == <<popupData, viewer, lastPoll, classified>>
deviceVars == <<devPc, bootAt, wifiStatus, inBackoff, lastReconnectAttempt,
                dynamicNetworks, spiffsWifi, spiffsMounted, devLog, attempt, gps,
                gpsSignal, inRange, pushed, noFixSince>>
vars == <<now, serverVars, viewerVars, deviceVars>>

----------------------------------------------------------------------------
(* JavaScript values *)

Undefined == [undef |-> TRUE]
Null      == [null |-> TRUE]
NaN       == [nan |-> TRUE]
Num(n)    == [num |-> n]
Str(s)    == [str |-> s]
Iso(t)    == [iso |-> t]
NoFile    == [nofile |-> TRUE]

\* x ?? y
Coalesce(x, y) == IF x = Undefined \/ x = Null THEN y ELSE x

\* x || y, for x a string or undefined or null
OrElse(x, y) == IF x = Undefined \/ x = Null \/ x = Str("") THEN y ELSE x

\* obj.f of a JavaScript object: undefined when the object has no such field
Field(obj, f) == IF f \in DOMAIN obj THEN obj[f] ELSE Undefined

\* The numerals of the model and the number parseFloat / parseInt read from
\* each: the longest numeric prefix ("2x" reads as 2).
NumeralValue == [s \in {"1", "2", "3", "2x"} |->
                    CASE s = "1" -> 1 [] s = "2" -> 2 [] s = "3" -> 3 [] s = "2x" -> 2]

\* The decimal numerals among them, and String(x, n) of a whole number x.
WellFormed == {"1", "2", "3"}

DecimalString(x) == Str(CHOOSE s \in WellFormed : NumeralValue[s] = x)

ParseFloat(v) ==
    IF v \in {Str(s) : s \in DOMAIN NumeralValue}
    THEN Num(NumeralValue[v.str])
    ELSE NaN

ParseInt(v) == ParseFloat(v)

NumFields == {"lat", "lng", "speed", "alt", "sats", "hdop"}

\* JSON.stringify followed by JSON.parse: NaN is written as null.
ToJson(doc) ==
    [f \in DOMAIN doc |->
        IF f \in NumFields /\ doc[f] = NaN THEN Null ELSE doc[f]]

----------------------------------------------------------------------------
(* Server: index.js *)

IsFix(q) == q.fix = Str("true") \/ q.fix = Str("1")

\* checkKey letting every request through while no secret is configured.
CheckKey_OpenWhenUnset(q, apiKey) == q.key = apiKey \/ apiKey = Undefined

\* A check that accepts any request that carries a key.
CheckKey_AnyKeyGiven(q, apiKey) == q.key # Undefined

CheckKey(q, apiKey) == q.key = apiKey

\* The packet GET /receivedata builds from the query.
Packet(q, mem) ==
    LET isFix == IsFix(q)
        prev(f) == IF mem = Null THEN Null ELSE Coalesce(Field(mem, f), Null)
    IN  [fix   |-> isFix,
         lat   |-> IF isFix THEN ParseFloat(q.lat) ELSE prev("lat"),
         lng   |-> IF isFix THEN ParseFloat(q.lng) ELSE prev("lng"),
         speed |-> IF isFix THEN ParseFloat(q.speed) ELSE prev("speed"),
         alt   |-> IF isFix THEN ParseFloat(q.alt) ELSE prev("alt"),
         sats  |-> IF q.sats # Undefined
                   THEN (IF q.sats = Str("") THEN Null ELSE ParseInt(q.sats))
                   ELSE Undefined,
         hdop  |-> IF q.hdop # Undefined
                   THEN (IF q.hdop = Str("") THEN Null ELSE ParseFloat(q.hdop))
                   ELSE Undefined]

InitialGPSData(t) ==
    [lat |-> Null, lng |-> Null, speed |-> Null, alt |-> Null,
     fix |-> FALSE, sats |-> Null, hdop |-> Null,
     lastPacketTimestamp |-> Iso(t),
     lastFixTimestamp |-> Null,
     timestamp |-> Null]

\* saveLatestGPS with a fix packet setting lastFixTimestamp and the position
\* only, lastPacketTimestamp being left to no-fix packets.
SaveLatestGPS_StalePacketTime(mem, packet, t) ==
    LET base == IF mem = Null THEN InitialGPSData(t) ELSE mem
        a == [base EXCEPT !.lastPacketTimestamp = IF packet.fix THEN @ ELSE Iso(t),
                          !.fix = packet.fix,
                          !.sats = IF packet.sats # Undefined THEN packet.sats ELSE @,
                          !.hdop = IF packet.hdop # Undefined THEN packet.hdop ELSE @]
    IN  IF packet.fix
        THEN [a EXCEPT !.lat = packet.lat, !.lng = packet.lng,
                       !.speed = packet.speed, !.alt = packet.alt,
                       !.lastFixTimestamp = Iso(t), !.timestamp = Iso(t)]
        ELSE a

\* saveLatestGPS: the new value of latestGPSData.
SaveLatestGPS(mem, packet, t) ==
    LET base == IF mem = Null THEN InitialGPSData(t) ELSE mem
        a == [base EXCEPT !.lastPacketTimestamp = Iso(t),
                          !.fix = packet.fix,
                          !.sats = IF packet.sats # Undefined THEN packet.sats ELSE @,
                          !.hdop = IF packet.hdop # Undefined THEN packet.hdop ELSE @]
    IN  IF packet.fix
        THEN [a EXCEPT !.lat = packet.lat, !.lng = packet.lng,
                       !.speed = packet.speed, !.alt = packet.alt,
                       !.lastFixTimestamp = Iso(t), !.timestamp = Iso(t)]
        ELSE a

\* loadLatestGPS that never reads the document.
LoadLatestGPS_MemoryOnly(mem, file, t) == mem

\* loadLatestGPS: the record it returns (Null when there is none); it also
\* becomes latestGPSData unless it is Null.
LoadLatestGPS(mem, file, t) ==
    IF mem # Null THEN mem
    ELSE IF file # NoFile
    THEN IF "fix" \notin DOMAIN file
         THEN [lat |-> Coalesce(Field(file, "lat"), Null),
               lng |-> Coalesce(Field(file, "lng"), Null),
               speed |-> Coalesce(Field(file, "speed"), Null),
               alt |-> Coalesce(Field(file, "alt"), Null),
               fix |-> TRUE, sats |-> Null, hdop |-> Null,
               lastPacketTimestamp |-> OrElse(Field(file, "timestamp"), Iso(t)),
               lastFixTimestamp |-> OrElse(Field(file, "timestamp"), Null),
               timestamp |-> OrElse(Field(file, "timestamp"), Null)]
         ELSE file
    ELSE Null

\* The view GET /api/latest-gps has of the fix state: latestGPSData, or the
\* durable document when the process has not loaded or built one yet.
FixState == LoadLatestGPS(latestGPSData, gpsFile, now)

NoResponse == [op |-> "none"]

\* No handler is running; no request waits, none has been handled.
\* committed (observation): the record the latest finished ingest amounts to.
Idle == [handler |-> "none"]
Quiet == [queue |-> {}, running |-> Idle, committed |-> Null]

\* A handler that restores latestGPSData when the write fails.
ReceiveData_RollsBack(q, wok) ==
    IF ~CheckKey(q, envApiKey)
    THEN /\ res' = [op |-> "receivedata", code |-> 403, body |-> Str("Invalid key")]
         /\ UNCHANGED <<envApiKey, latestGPSData, gpsFile, wifiFile, atRestart, accepted, eventLoop>>
    ELSE /\ latestGPSData' =
                IF wok THEN SaveLatestGPS(latestGPSData, Packet(q, latestGPSData), now)
                ELSE latestGPSData
         /\ gpsFile' = IF wok THEN ToJson(latestGPSData') ELSE gpsFile
         /\ res' = [op |-> "receivedata", code |-> 200, body |-> [status |-> "ok", fix |-> IsFix(q)]]
         /\ atRestart' = IF IsFix(q) THEN NoFile ELSE atRestart
         /\ accepted' = "this run"
         /\ UNCHANGED <<envApiKey, wifiFile, eventLoop>>

\* GET /receivedata: what the handler does to the server.  wok: whether
\* fs.writeFileSync succeeds.
ReceiveData(q, wok) ==
    IF ~CheckKey(q, envApiKey)
    THEN /\ res' = [op |-> "receivedata", code |-> 403, body |-> Str("Invalid key")]
         /\ UNCHANGED <<envApiKey, latestGPSData, gpsFile, wifiFile, atRestart, accepted, eventLoop>>
    ELSE /\ latestGPSData' = SaveLatestGPS(latestGPSData, Packet(q, latestGPSData), now)
         /\ gpsFile' = IF wok THEN ToJson(latestGPSData') ELSE gpsFile
         /\ res' = [op |-> "receivedata", code |-> 200,
                    body |-> [status |-> "ok", fix |-> IsFix(q)]]
         /\ atRestart' = IF IsFix(q) THEN NoFile ELSE atRestart
         /\ accepted' = "this run"
         /\ UNCHANGED <<envApiKey, wifiFile, eventLoop>>

\* GET /api/latest-gps: what the handler does to the server.
GetLatestGps ==
    LET data == LoadLatestGPS(latestGPSData, gpsFile, now)
    IN  /\ latestGPSData' = data
        /\ res' = IF data # Null
                  THEN [op |-> "latest-gps", code |-> 200, body |-> ToJson(data)]
                  ELSE [op |-> "latest-gps", code |-> 404,
                        body |-> [error |-> "No GPS data available"]]
        /\ UNCHANGED <<envApiKey, gpsFile, wifiFile, atRestart, accepted, eventLoop>>

\* A server whose handlers could start while another handler is running.
MayStart_Preemptive == TRUE

\* Node runs one callback at a time, and the handlers of /receivedata and
\* /api/latest-gps are synchronous (no await, no callback, the file calls are
\* the Sync ones): a handler starts only when none is running.
MayStart == eventLoop.running = Idle

\* GET /receivedata arrives and waits for the event loop.
Arrive(q) ==
    /\ q \notin eventLoop.queue
    /\ eventLoop' = [eventLoop EXCEPT !.queue = @ \cup {q}]
    /\ UNCHANGED <<envApiKey, latestGPSData, gpsFile, wifiFile, res, atRestart, accepted>>

\* The handler of a waiting GET /receivedata starts: checkKey, then the
\* packet is built (lines 147-173) and saveLatestGPS takes the time (line 58).
\* wok: whether fs.writeFileSync will succeed.
BeginIngest(q, wok) ==
    /\ MayStart
    /\ q \in eventLoop.queue
    /\ IF ~CheckKey(q, envApiKey)
       THEN /\ res' = [op |-> "receivedata", code |-> 403, body |-> Str("Invalid key")]
            /\ eventLoop' = [eventLoop EXCEPT !.queue = @ \ {q}]
       ELSE /\ res' = res
            /\ eventLoop' =
                [eventLoop EXCEPT
                    !.queue = @ \ {q},
                    !.running = [handler |-> "receivedata", q |-> q, wok |-> wok,
                                 packet |-> Packet(q, latestGPSData), at |-> now,
                                 pre |-> latestGPSData, pc |-> "init"]]
    /\ UNCHANGED <<envApiKey, latestGPSData, gpsFile, wifiFile, atRestart, accepted>>

\* The running handler of GET /receivedata executes its next statement of
\* saveLatestGPS, or answers.
StepIngest ==
    LET r == eventLoop.running
        goto(pc) == [eventLoop EXCEPT !.running.pc = pc]
    IN  /\ r # Idle
        /\ CASE r.pc = "init" ->
                /\ latestGPSData' = IF latestGPSData = Null THEN InitialGPSData(r.at)
                                    ELSE latestGPSData
                /\ eventLoop' = goto("lastPacketTimestamp")
                /\ UNCHANGED <<gpsFile, res, atRestart, accepted>>
             [] r.pc = "lastPacketTimestamp" ->
                /\ latestGPSData' = [latestGPSData EXCEPT !.lastPacketTimestamp = Iso(r.at)]
                /\ eventLoop' = goto("fix")
                /\ UNCHANGED <<gpsFile, res, atRestart, accepted>>
             [] r.pc = "fix" ->
                /\ latestGPSData' = [latestGPSData EXCEPT !.fix = r.packet.fix]
                /\ eventLoop' = goto("sats")
                /\ UNCHANGED <<gpsFile, res, atRestart, accepted>>
             [] r.pc = "sats" ->
                /\ latestGPSData' =
                     [latestGPSData EXCEPT
                        !.sats = IF r.packet.sats # Undefined THEN r.packet.sats ELSE @,
                        !.hdop = IF r.packet.hdop # Undefined THEN r.packet.hdop ELSE @]
                /\ eventLoop' = goto(IF r.packet.fix THEN "position" ELSE "write")
                /\ UNCHANGED <<gpsFile, res, atRestart, accepted>>
             [] r.pc = "position" ->
                /\ latestGPSData' =
                     [latestGPSData EXCEPT !.lat = r.packet.lat, !.lng = r.packet.lng,
                                           !.speed = r.packet.speed, !.alt = r.packet.alt]
                /\ eventLoop' = goto("fixTimestamp")
                /\ UNCHANGED <<gpsFile, res, atRestart, accepted>>
             [] r.pc = "fixTimestamp" ->
                /\ latestGPSData' = [latestGPSData EXCEPT !.lastFixTimestamp = Iso(r.at),
                                                          !.timestamp = Iso(r.at)]
                /\ eventLoop' = goto("write")
                /\ UNCHANGED <<gpsFile, res, atRestart, accepted>>
             [] r.pc = "write" ->
                /\ gpsFile' = IF r.wok THEN ToJson(latestGPSData) ELSE gpsFile
                /\ eventLoop' = goto("respond")
                /\ UNCHANGED <<latestGPSData, res, atRestart, accepted>>
             [] r.pc = "respond" ->
                /\ res' = [op |-> "receivedata", code |-> 200,
                           body |-> [status |-> "ok", fix |-> IsFix(r.q)]]
                /\ atRestart' = IF IsFix(r.q) THEN NoFile ELSE atRestart
                /\ accepted' = "this run"
                /\ eventLoop' = [eventLoop EXCEPT
                                    !.running = Idle,
                                    !.committed = SaveLatestGPS(r.pre, r.packet, r.at)]
                /\ UNCHANGED <<latestGPSData, gpsFile>>
        /\ UNCHANGED <<envApiKey, wifiFile>>

\* A JSON document that is an array
JsonArray(list) == [array |-> list]

\* loadWifiList
LoadWifiList(file) == IF file = NoFile THEN <<>> ELSE file.array

\* GET /wifi: the response (the handler changes nothing).
GetWifi(q) ==
    IF ~CheckKey(q, envApiKey)
    THEN [op |-> "wifi", code |-> 403, body |-> Str("Invalid key")]
    ELSE [op |-> "wifi", code |-> 200, body |-> LoadWifiList(wifiFile)]

\* !v for a value of a JSON body: undefined and "" are falsy.
Falsy(v) == v = Undefined \/ v = Str("")

\* list.findIndex(n => n.ssid === ssid): the first index, 0 for none.
FindIndex(list, ssid) ==
    IF \E k \in DOMAIN list : list[k].ssid = ssid
    THEN CHOOSE k \in DOMAIN list :
            /\ list[k].ssid = ssid
            /\ \A j \in 1..(k - 1) : list[j].ssid # ssid
    ELSE 0

\* An upsert that always appends.
Upsert_AlwaysAppend(list, ssid, password) ==
    Append(list, [ssid |-> ssid, password |-> password])

\* An upsert that looks for the pair (ssid, password) instead of the ssid.
Upsert_KeyedByPair(list, ssid, password) ==
    IF \E k \in DOMAIN list : list[k] = [ssid |-> ssid, password |-> password]
    THEN list
    ELSE Append(list, [ssid |-> ssid, password |-> password])

\* if (idx >= 0) list[idx].password = password; else list.push({ssid, password})
Upsert(list, ssid, password) ==
    LET idx == FindIndex(list, ssid)
    IN  IF idx > 0 THEN [list EXCEPT ![idx].password = password]
        ELSE Append(list, [ssid |-> ssid, password |-> password])

\* A removal that drops the last entry when the ssid is not in the list.
RECURSIVE Remove_DropsLastIfAbsent(_, _)
Remove_DropsLastIfAbsent(list, ssid) ==
    IF list = <<>> THEN <<>>
    ELSE IF \A k \in DOMAIN list : list[k].ssid # ssid
    THEN SubSeq(list, 1, Len(list) - 1)
    ELSE IF Head(list).ssid = ssid THEN Remove_DropsLastIfAbsent(Tail(list), ssid)
    ELSE <<Head(list)>> \o Remove_DropsLastIfAbsent(Tail(list), ssid)

\* list.filter(n => n.ssid !== ssid)
RECURSIVE Remove(_, _)
Remove(list, ssid) ==
    IF list = <<>> THEN <<>>
    ELSE IF Head(list).ssid = ssid THEN Remove(Tail(list), ssid)
    ELSE <<Head(list)>> \o Remove(Tail(list), ssid)

\* PUT /wifi?key=..., body {ssid, password}.  was: the stored list when the
\* request arrived (observation).
PutWifi(q, body) ==
    /\ IF ~CheckKey(q, envApiKey)
       THEN /\ res' = [op |-> "put wifi", code |-> 403, body |-> Str("Invalid key"),
                       was |-> LoadWifiList(wifiFile)]
            /\ wifiFile' = wifiFile
       ELSE IF Falsy(body.ssid) \/ Falsy(body.password)
       THEN /\ res' = [op |-> "put wifi", code |-> 400,
                       body |-> Str("Missing ssid or password"),
                       was |-> LoadWifiList(wifiFile)]
            /\ wifiFile' = wifiFile
       ELSE LET list == Upsert(LoadWifiList(wifiFile), body.ssid.str, body.password.str)
            IN  /\ wifiFile' = JsonArray(list)
                /\ res' = [op |-> "put wifi", code |-> 200, body |-> list,
                           was |-> LoadWifiList(wifiFile), ssid |-> body.ssid.str,
                           password |-> body.password.str]
    /\ UNCHANGED <<envApiKey, latestGPSData, gpsFile, atRestart, accepted, eventLoop>>

\* DELETE /wifi/:ssid?key=...
DeleteWifi(q, ssid) ==
    /\ IF ~CheckKey(q, envApiKey)
       THEN /\ res' = [op |-> "delete wifi", code |-> 403, body |-> Str("Invalid key"),
                       was |-> LoadWifiList(wifiFile)]
            /\ wifiFile' = wifiFile
       ELSE LET list == Remove(LoadWifiList(wifiFile), ssid)
            IN  /\ wifiFile' = JsonArray(list)
                /\ res' = [op |-> "delete wifi", code |-> 200, body |-> list,
                           was |-> LoadWifiList(wifiFile), ssid |-> ssid]
    /\ UNCHANGED <<envApiKey, latestGPSData, gpsFile, atRestart, accepted, eventLoop>>

\* GET /wifi?key=... as a request of its own.
ReadWifi(q) ==
    /\ res' = [GetWifi(q) EXCEPT !.op = "get wifi"] @@ [was |-> LoadWifiList(wifiFile)]
    /\ UNCHANGED <<envApiKey, latestGPSData, gpsFile, wifiFile, atRestart, accepted, eventLoop>>

\* The handlers of PUT /wifi and DELETE /wifi/:ssid that are running: none
\* (Idle), or each with the request it serves, its position and its local
\* `list`.
WifiProcs == IF eventLoop.running = Idle THEN {} ELSE eventLoop.running.procs

Running(procs) == IF procs = {} THEN Idle ELSE [handler |-> "wifi", procs |-> procs]

\* A PUT /wifi or DELETE /wifi/:ssid arrives and waits for the event loop
\* (express.json() has read its body).
ArriveWifi(rq) ==
    /\ rq \notin eventLoop.queue
    /\ \A c \in eventLoop.committed : c.rq # rq
    /\ \A p \in WifiProcs : p.rq # rq
    /\ eventLoop' = [eventLoop EXCEPT !.queue = @ \cup {rq}]
    /\ UNCHANGED <<envApiKey, latestGPSData, gpsFile, wifiFile, res, atRestart, accepted>>

\* The handler of a waiting request starts: checkKey, the check of the body
\* (PUT), then `let list = loadWifiList()` (lines 247, 259).
BeginWifi(rq) ==
    /\ MayStart
    /\ rq \in eventLoop.queue
    /\ IF ~CheckKey(rq, envApiKey)
       THEN /\ res' = [op |-> rq.method \o " wifi", code |-> 403,
                       body |-> Str("Invalid key"), was |-> LoadWifiList(wifiFile)]
            /\ eventLoop' = [eventLoop EXCEPT !.queue = @ \ {rq}]
       ELSE IF rq.method = "put" /\ (Falsy(rq.ssid) \/ Falsy(rq.password))
       THEN /\ res' = [op |-> "put wifi", code |-> 400,
                       body |-> Str("Missing ssid or password"),
                       was |-> LoadWifiList(wifiFile)]
            /\ eventLoop' = [eventLoop EXCEPT !.queue = @ \ {rq}]
       ELSE /\ res' = res
            /\ eventLoop' =
                [eventLoop EXCEPT
                    !.queue = @ \ {rq},
                    !.running = Running(WifiProcs \cup
                                    {[rq |-> rq, pc |-> "modify",
                                      was |-> LoadWifiList(wifiFile),
                                      list |-> LoadWifiList(wifiFile)]})]
    /\ UNCHANGED <<envApiKey, latestGPSData, gpsFile, wifiFile, atRestart, accepted>>

\* A running handler executes its next statement: the change of its list
\* (lines 248-253, 260), saveWifiList (254, 261), res.json (255, 262).
\* committed (observation): the requests carried out, each with the requests
\* that were waiting when it was answered.
StepWifi(p) ==
    /\ p \in WifiProcs
    /\ CASE p.pc = "modify" ->
            /\ eventLoop' =
                [eventLoop EXCEPT !.running = Running((WifiProcs \ {p}) \cup
                    {[p EXCEPT !.pc = "save",
                               !.list = IF p.rq.method = "put"
                                        THEN Upsert(p.list, p.rq.ssid.str, p.rq.password.str)
                                        ELSE Remove(p.list, p.rq.ssid.str)]})]
            /\ UNCHANGED <<wifiFile, res>>
         [] p.pc = "save" ->
            /\ wifiFile' = JsonArray(p.list)
            /\ eventLoop' =
                [eventLoop EXCEPT !.running = Running((WifiProcs \ {p}) \cup
                    {[p EXCEPT !.pc = "respond"]})]
            /\ UNCHANGED res
         [] p.pc = "respond" ->
            /\ res' = [op |-> p.rq.method \o " wifi", code |-> 200, body |-> p.list,
                       was |-> p.was, ssid |-> p.rq.ssid.str]
            /\ eventLoop' =
                [eventLoop EXCEPT
                    !.running = Running(WifiProcs \ {p}),
                    !.committed = @ \cup {[rq |-> p.rq, with |-> eventLoop.queue]}]
            /\ UNCHANGED wifiFile
    /\ UNCHANGED <<envApiKey, latestGPSData, gpsFile, atRestart, accepted>>

\* The server process stops and starts again: module state is rebuilt
\* (let latestGPSData = null), the documents on disk stay.
Restart ==
    /\ latestGPSData' = Null
    /\ res' = NoResponse
    /\ atRestart' = LET doc == LoadLatestGPS(Null, gpsFile, now)
                    IN  IF doc # Null /\ doc.lastFixTimestamp # Null
                        THEN doc ELSE NoFile
    /\ accepted' = IF accepted = "this run" THEN "earlier run" ELSE accepted
    /\ eventLoop' = Quiet
    /\ UNCHANGED <<now, envApiKey, gpsFile, wifiFile, viewerVars, deviceVars>>

Tick(d) ==
    /\ now' = now + d
    /\ UNCHANGED <<serverVars, viewerVars, deviceVars>>

----------------------------------------------------------------------------
(* Viewer: public/tracker.js *)

Viewers == {"a", "b"}

StaleMs == 60000

\* A Date object, and new Date(iso)
Date(t) == [ms |-> t]
ParseDate(s) == Date(s.iso)

\* The constructor's fields; status is the text of #connectionStatus, which
\* the page's script has not set yet.  marker stands for currentMarker: where
\* it is, and whether it is on the map.
NewTracker ==
    [isConnected |-> FALSE, hasFix |-> FALSE, lastFixTime |-> Null,
     lastPacketTime |-> Null, lastPosition |-> Null, marker |-> Null,
     status |-> "unset"]

\* updateConnectionStatus with a status that, once Offline, is only replaced
\* by Online.
UpdateConnectionStatus_Sticky(g, t) ==
    LET stale == IF g.lastPacketTime # Null
                 THEN t - g.lastPacketTime.ms > StaleMs
                 ELSE FALSE
    IN  IF ~g.isConnected \/ stale THEN "Offline"
        ELSE IF ~g.hasFix
        THEN (IF g.status = "Offline" THEN "Offline" ELSE "No GPS Signal")
        ELSE "Online"

\* updateConnectionStatus: the text it puts in #connectionStatus at time t.
UpdateConnectionStatus(g, t) ==
    LET stale == IF g.lastPacketTime # Null
                 THEN t - g.lastPacketTime.ms > StaleMs
                 ELSE FALSE
    IN  IF ~g.isConnected \/ stale THEN "Offline"
        ELSE IF ~g.hasFix THEN "No GPS Signal"
        ELSE "Online"

\* const { lat, lng } = data; [lat, lng]
LatLng(data) == [lat |-> data.lat, lng |-> data.lng]

\* x.toFixed(n) throws a TypeError when x is null.
ToFixedThrows(x) == x = Null

\* createPopupContent (called by updatePosition before it sets lastPosition)
\* throws if a field the popup shows is null; data.speed < 2 is true of null.
PopupThrows(data, popup) ==
    popup /\ (ToFixedThrows(data.lat) \/ ToFixedThrows(data.lng)
                \/ ToFixedThrows(data.alt))

\* updateDataDisplay throws if lat, lng or alt is null.
DisplayThrows(data) ==
    ToFixedThrows(data.lat) \/ ToFixedThrows(data.lng) \/ ToFixedThrows(data.alt)

\* An updateGPSData that moves the marker to the record's position whether
\* or not the record has a fix.
UpdateGPSData_AlwaysMoves(g, data, t, popup) ==
    IF data # Undefined
    THEN LET g1 == [g EXCEPT
                      !.isConnected = TRUE,
                      !.hasFix = (data.fix = TRUE),
                      !.lastPacketTime = ParseDate(data.lastPacketTimestamp),
                      !.lastPosition = LatLng(data),
                      !.marker = [at |-> LatLng(data), shown |-> TRUE]]
         IN  [page |-> [g1 EXCEPT !.status = UpdateConnectionStatus(g1, t)],
              reached |-> TRUE]
    ELSE LET g1 == [g EXCEPT !.isConnected = FALSE]
         IN  [page |-> [g1 EXCEPT !.status = UpdateConnectionStatus(g1, t)],
              reached |-> TRUE]

\* updateGPSData with data fetched (Undefined: the fetch failed or the
\* response was not ok) at time t.  Returns the page's fields and whether
\* updateConnectionStatus was reached.  updatePosition takes currentMarker off
\* the map (line 217) before createPopupContent can throw, and assigns the new
\* marker and lastPosition after it.
UpdateGPSData(g, data, t, popup) ==
    IF data # Undefined
    THEN LET g1 == [g EXCEPT
                      !.isConnected = TRUE,
                      !.hasFix = (data.fix = TRUE),
                      !.lastPacketTime =
                          IF OrElse(Field(data, "lastPacketTimestamp"), Null) # Null
                          THEN ParseDate(data.lastPacketTimestamp) ELSE @,
                      !.lastFixTime =
                          IF OrElse(Field(data, "lastFixTimestamp"), Null) # Null
                          THEN ParseDate(data.lastFixTimestamp) ELSE @]
             g2 == [g1 EXCEPT !.lastPosition = LatLng(data),
                              !.marker = [at |-> LatLng(data), shown |-> TRUE]]
         IN  IF g1.hasFix
             THEN IF PopupThrows(data, popup)
                  THEN [page |-> [g1 EXCEPT !.marker = IF @ = Null THEN Null
                                                       ELSE [@ EXCEPT !.shown = FALSE]],
                        reached |-> FALSE]
                  ELSE IF DisplayThrows(data)
                  THEN [page |-> g2, reached |-> FALSE]
                  ELSE [page |-> [g2 EXCEPT !.status = UpdateConnectionStatus(g2, t)],
                        reached |-> TRUE]
             ELSE [page |-> [g1 EXCEPT !.status = UpdateConnectionStatus(g1, t)],
                   reached |-> TRUE]
    ELSE LET g1 == [g EXCEPT !.isConnected = FALSE]
         IN  [page |-> [g1 EXCEPT !.status = UpdateConnectionStatus(g1, t)],
              reached |-> TRUE]

ClassifiedFrom(g, t) ==
    [isConnected |-> g.isConnected, lastPacketTime |-> g.lastPacketTime,
     hasFix |-> g.hasFix, at |-> Date(t)]

\* What fetchLatestGPSData returns for the server's response.
Fetched(response) == IF response.code = 200 THEN response.body ELSE Undefined

\* One poll of page v (startTracking's timer).  up: whether the request
\* reaches the server; if it does, the server handles GET /api/latest-gps.
Poll(v, up) ==
    /\ IF up THEN GetLatestGps ELSE UNCHANGED serverVars
    /\ LET data == IF up THEN Fetched(res') ELSE Undefined
           r == UpdateGPSData(viewer[v], data, now, popupData)
       IN  /\ viewer' = [viewer EXCEPT ![v] = r.page]
           /\ lastPoll' = [lastPoll EXCEPT ![v] = [data |-> data, at |-> Date(now)]]
           /\ classified' =
                IF r.reached
                THEN [classified EXCEPT ![v] = ClassifiedFrom(r.page, now)]
                ELSE classified
    /\ UNCHANGED <<now, popupData, deviceVars>>

\* A request of any other client.
Ingest(q, wok) == ReceiveData(q, wok) /\ UNCHANGED <<now, viewerVars, deviceVars>>

ReadLatest == GetLatestGps /\ UNCHANGED <<now, viewerVars, deviceVars>>

NotPolled == [data |-> Undefined, at |-> Null]
NotClassified == [at |-> Null]

ViewerInit ==
    /\ viewer = [v \in Viewers |-> NewTracker]
    /\ lastPoll = [v \in Viewers |-> NotPolled]
    /\ classified = [v \in Viewers |-> NotClassified]

----------------------------------------------------------------------------
(* Device: ESP32/client.c *)

ConnectTimeoutMs == 10000
BackoffMs == 30000
MaxAgeMs == 2000
LoopDelayMs == 2000

DefaultNet == [ssid |-> "TP-Link_2.4GHz", password |-> "password123"]

\* The device's memory at a point of its single thread: clock is the wall
\* clock there, resp the server's latest response, log what the thread has
\* done in this step.
Device ==
    [wifiStatus |-> wifiStatus, inBackoff |-> inBackoff,
     lastReconnectAttempt |-> lastReconnectAttempt,
     dynamicNetworks |-> dynamicNetworks, spiffsWifi |-> spiffsWifi,
     spiffsMounted |-> spiffsMounted,
     clock |-> now, resp |-> res, log |-> <<>>]

\* What is recorded of the device's memory: its connectivity and its lists.
Conn(d) ==
    [wifiStatus |-> d.wifiStatus, inBackoff |-> d.inBackoff,
     lastReconnectAttempt |-> d.lastReconnectAttempt,
     dynamicNetworks |-> d.dynamicNetworks, spiffsWifi |-> d.spiffsWifi,
     millis |-> d.clock - bootAt']

Logged(d, event) == [d EXCEPT !.log = Append(@, event)]

\* A load that reads the file whether or not the file system is mounted.
LoadDeviceWifiList_IgnoresMount(d) ==
    IF d.spiffsWifi = NoFile THEN d
    ELSE [d EXCEPT !.dynamicNetworks = d.spiffsWifi.array]

\* loadWifiList: the list on flash replaces dynamicNetworks if there is one
\* (on a file system that is not mounted, no file exists).
LoadDeviceWifiList(d) ==
    IF ~d.spiffsMounted \/ d.spiffsWifi = NoFile THEN d
    ELSE [d EXCEPT !.dynamicNetworks = d.spiffsWifi.array]

\* saveWifiList: nothing is written if the file cannot be opened.
SaveWifiList(d) ==
    IF d.spiffsMounted
    THEN [d EXCEPT !.spiffsWifi = JsonArray(d.dynamicNetworks)]
    ELSE d

\* A fetchWifiList that clears the list before it looks at the reply.
OnWifiReply_ClearsFirst(d, code, isArray, list) ==
    IF code = 200 /\ isArray
    THEN SaveWifiList([d EXCEPT !.dynamicNetworks = list])
    ELSE [d EXCEPT !.dynamicNetworks = <<>>]

\* What fetchWifiList does with the reply of http.GET() (lines 88-106).
\* isArray: deserializeJson gave no error and the document is a JSON array,
\* whose entries are list.
OnWifiReply(d, code, isArray, list) ==
    IF code = 200 /\ isArray
    THEN SaveWifiList([d EXCEPT !.dynamicNetworks = list])
    ELSE d

\* fetchWifiList.  up: whether the request reaches the server (if not,
\* http.GET() returns a negative code).  The server's 200 carries
\* res.json(loadWifiList()), an array.
FetchWifiList(d, up) ==
    IF d.wifiStatus = "none" THEN d
    ELSE LET r == IF up THEN GetWifi([key |-> Str("keyvalue")])
                  ELSE [op |-> "wifi", code |-> -1]
             d1 == OnWifiReply(d, r.code, r.code = 200,
                               IF r.code = 200 THEN r.body ELSE <<>>)
         IN  Logged([d1 EXCEPT !.resp = IF up THEN r ELSE @],
                    [ev |-> "fetch", code |-> r.code,
                     list |-> d1.dynamicNetworks, stored |-> d1.spiffsWifi])

\* tryConnect: connected at once if the network is in range with this
\* password, else the loop gives up after its 10 s.
TryConnect(d, net, kind) ==
    IF net \in inRange
    THEN Logged([d EXCEPT !.wifiStatus = net.ssid],
                [ev |-> "try", kind |-> kind, net |-> net, ok |-> TRUE])
    ELSE Logged([d EXCEPT !.wifiStatus = "none", !.clock = @ + ConnectTimeoutMs],
                [ev |-> "try", kind |-> kind, net |-> net, ok |-> FALSE])

\* for (auto &net : dynamicNetworks) if (tryConnect(...)) ...
RECURSIVE TryEach(_, _)
TryEach(d, nets) ==
    IF nets = <<>> THEN d
    ELSE LET d1 == TryConnect(d, Head(nets), "saved")
         IN  IF d1.wifiStatus # "none" THEN d1 ELSE TryEach(d1, Tail(nets))

\* connectWiFi trying the fallback network before the saved ones.
ConnectWiFi_FallbackFirst(d, up) ==
    IF d.wifiStatus # "none" THEN d
    ELSE LET d0 == Logged(d, [ev |-> "round", list |-> d.dynamicNetworks])
             d1 == TryConnect(d0, DefaultNet, "fallback")
         IN  IF d1.wifiStatus # "none"
             THEN FetchWifiList([d1 EXCEPT !.inBackoff = FALSE], up)
             ELSE LET d2 == TryEach(d1, d1.dynamicNetworks)
                  IN  IF d2.wifiStatus # "none" THEN [d2 EXCEPT !.inBackoff = FALSE]
                      ELSE [d2 EXCEPT !.inBackoff = TRUE,
                                      !.lastReconnectAttempt = d2.clock - bootAt']

\* connectWiFi entering backoff without restarting the cool-down timer.
ConnectWiFi_TimerNotStarted(d, up) ==
    IF d.wifiStatus # "none" THEN d
    ELSE LET d0 == Logged(d, [ev |-> "round", list |-> d.dynamicNetworks])
             d1 == TryEach(d0, d0.dynamicNetworks)
         IN  IF d1.wifiStatus # "none" THEN [d1 EXCEPT !.inBackoff = FALSE]
             ELSE LET d2 == TryConnect(d1, DefaultNet, "fallback")
                  IN  IF d2.wifiStatus # "none"
                      THEN FetchWifiList([d2 EXCEPT !.inBackoff = FALSE], up)
                      ELSE [d2 EXCEPT !.inBackoff = TRUE]

ConnectWiFi(d, up) ==
    IF d.wifiStatus # "none" THEN d
    ELSE LET d0 == Logged(d, [ev |-> "round", list |-> d.dynamicNetworks])
             d1 == TryEach(d0, d0.dynamicNetworks)
         IN  IF d1.wifiStatus # "none" THEN [d1 EXCEPT !.inBackoff = FALSE]
             ELSE LET d2 == TryConnect(d1, DefaultNet, "fallback")
                  IN  IF d2.wifiStatus # "none"
                      THEN FetchWifiList([d2 EXCEPT !.inBackoff = FALSE], up)
                      ELSE [d2 EXCEPT !.inBackoff = TRUE,
                                      !.lastReconnectAttempt = d2.clock - bootAt']

\* connectWiFi is not running.
NoAttempt == [pc |-> "none"]

\* What is left of a connectWiFi call when it has returned: nothing, or the
\* WiFi.begin of its last tryConnect, which timed out and which no
\* WiFi.disconnect has cancelled (late: the network, and the millis() at which
\* it gets WL_CONNECTED).
After(a) ==
    IF "late" \in DOMAIN a /\ a.late # Null
    THEN [pc |-> "none", late |-> a.late]
    ELSE NoAttempt

\* The device's memory becomes d.
Becomes(d) ==
    /\ wifiStatus' = d.wifiStatus
    /\ inBackoff' = d.inBackoff
    /\ lastReconnectAttempt' = d.lastReconnectAttempt
    /\ dynamicNetworks' = d.dynamicNetworks
    /\ spiffsWifi' = d.spiffsWifi
    /\ spiffsMounted' = d.spiffsMounted
    /\ attempt' = After(attempt)

\* Since when the device has been connected to a reachable server without a
\* GPS position, after a step in which the server was reachable or not.
Observed(up) ==
    IF wifiStatus' # "none" /\ gpsSignal' = Null /\ up
    THEN (IF noFixSince = Null THEN [ms |-> now'] ELSE noFixSince)
    ELSE Null

NoLog == [step |-> "none"]

\* Power on: setup().  mount: whether SPIFFS.begin succeeds.
DeviceSetup(up, mount) ==
    /\ devPc = "off"
    /\ bootAt' = now
    /\ LET d0 == [Device EXCEPT !.wifiStatus = "none", !.inBackoff = FALSE,
                                !.lastReconnectAttempt = 0,
                                !.dynamicNetworks = <<>>,
                                !.spiffsMounted = mount]
           d1 == LoadDeviceWifiList(d0)
           d == FetchWifiList(ConnectWiFi(d1, up), up)
       IN  /\ Becomes(d)
           /\ now' = d.clock
           /\ res' = d.resp
           /\ devLog' = [step |-> "setup", before |-> Conn(d1), events |-> d.log,
                         after |-> Conn(d), reading |-> Null]
    /\ devPc' = "loop"
    /\ gps' = [valid |-> FALSE, pos |-> Null, at |-> Null]
    /\ UNCHANGED <<envApiKey, latestGPSData, gpsFile, wifiFile, atRestart, accepted, eventLoop,
                   viewerVars, gpsSignal, inRange, pushed>>
    /\ noFixSince' = Observed(up)

\* A device that never leaves backoff.
RetryDue_Never(d) == FALSE

\* millis() - lastReconnectAttempt > 30000
RetryDue_AtThirtySeconds(d) ==
    (d.clock - bootAt) - d.lastReconnectAttempt >= BackoffMs

RetryDue(d) == (d.clock - bootAt) - d.lastReconnectAttempt > BackoffMs

\* loop(), lines 165-171, when WiFi is not connected.
DeviceReconnect(up) ==
    /\ devPc = "loop"
    /\ wifiStatus = "none"
    /\ bootAt' = bootAt
    /\ LET d == IF ~inBackoff THEN ConnectWiFi(Device, up)
                ELSE IF RetryDue(Device) THEN ConnectWiFi(Device, up)
                ELSE Device
       IN  /\ Becomes(d)
           /\ now' = d.clock
           /\ res' = d.resp
           /\ devLog' = [step |-> "connect", before |-> Conn(Device), events |-> d.log,
                         after |-> Conn(d), reading |-> Null]
    /\ devPc' = "report"
    /\ UNCHANGED <<envApiKey, latestGPSData, gpsFile, wifiFile, atRestart, accepted, eventLoop,
                   viewerVars, gps, gpsSignal, inRange, pushed>>
    /\ noFixSince' = Observed(up)

\* connectWiFi and tryConnect followed one step at a time.

PollDelayMs == 500

\* When WiFi.begin on a network gets WL_CONNECTED, in ms after the call:
\* at once, after a while, just before or at the 10 s, later than that, or
\* never (JoinNever) for a network that is not in range.
JoinNever == -1

JoinDelays(net) ==
    IF net \in inRange THEN {0, 9500, 10000, 12000} ELSE {JoinNever}

\* WiFi.status() == WL_CONNECTED at millis() = t, in the attempt a.
Joined(a, t) == a.join # JoinNever /\ t - a.start >= a.join

\* A tryConnect without its timeout.
TimedOut_Never(a, t) == FALSE

\* !(millis() - start < 10000)
TimedOut(a, t) == t - a.start >= ConnectTimeoutMs

\* What the stepwise actions leave as it is.
UnchangedByAttempt ==
    UNCHANGED <<serverVars, viewerVars, bootAt, dynamicNetworks, spiffsWifi,
                spiffsMounted, devLog, gps, gpsSignal, inRange, pushed, noFixSince>>

\* loop() calls connectWiFi (lines 165-170), which passes line 130.
RoundBegin ==
    /\ devPc = "loop"
    /\ wifiStatus = "none"
    /\ ~inBackoff \/ RetryDue(Device)
    /\ devPc' = "connect"
    /\ attempt' =
         [pc |-> "next", late |-> Null,
          todo |-> [k \in 1..(Len(dynamicNetworks) + 1) |->
                      IF k <= Len(dynamicNetworks)
                      THEN [kind |-> "saved", net |-> dynamicNetworks[k]]
                      ELSE [kind |-> "fallback", net |-> DefaultNet]]]
    /\ UNCHANGED <<now, wifiStatus, inBackoff, lastReconnectAttempt>>
    /\ UnchangedByAttempt

\* loop() in backoff before the 30 s have passed: no call.
SkipRound ==
    /\ devPc = "loop"
    /\ wifiStatus = "none"
    /\ inBackoff /\ ~RetryDue(Device)
    /\ devPc' = "report"
    /\ UNCHANGED <<now, wifiStatus, inBackoff, lastReconnectAttempt, attempt>>
    /\ UnchangedByAttempt

\* tryConnect is called for the next candidate: lines 112-116.
TryBegin(join) ==
    /\ attempt.pc = "next"
    /\ attempt.todo # <<>>
    /\ join \in JoinDelays(Head(attempt.todo).net)
    /\ attempt' = [pc |-> "poll", todo |-> Tail(attempt.todo),
                   cand |-> Head(attempt.todo), start |-> now - bootAt,
                   join |-> join]
    /\ wifiStatus' = "none"
    /\ UNCHANGED <<now, devPc, inBackoff, lastReconnectAttempt>>
    /\ UnchangedByAttempt

\* One turn of the while loop of tryConnect: delay(500).
TryPoll ==
    /\ attempt.pc = "poll"
    /\ ~Joined(attempt, now - bootAt)
    /\ ~TimedOut(attempt, now - bootAt)
    /\ now' = now + PollDelayMs
    /\ UNCHANGED <<devPc, wifiStatus, inBackoff, lastReconnectAttempt, attempt>>
    /\ UnchangedByAttempt

\* The while loop is left; tryConnect returns and connectWiFi goes on: on
\* true it clears inBackoff and returns (after a fetch, for the fallback), on
\* false it goes to the next candidate.
TryReturn ==
    /\ attempt.pc = "poll"
    /\ Joined(attempt, now - bootAt) \/ TimedOut(attempt, now - bootAt)
    /\ IF Joined(attempt, now - bootAt)
       THEN /\ wifiStatus' = attempt.cand.net.ssid
            /\ inBackoff' = FALSE
            /\ attempt' = [pc |-> "done", late |-> Null,
                           fetch |-> attempt.cand.kind = "fallback"]
       ELSE /\ attempt' = [pc |-> "next", todo |-> attempt.todo,
                           late |-> IF attempt.join = JoinNever THEN Null
                                    ELSE [net |-> attempt.cand.net,
                                          at |-> attempt.start + attempt.join]]
            /\ UNCHANGED <<wifiStatus, inBackoff>>
    /\ UNCHANGED <<now, devPc, lastReconnectAttempt>>
    /\ UnchangedByAttempt

\* Every candidate has failed: lines 145-147.
RoundFail ==
    /\ attempt.pc = "next"
    /\ attempt.todo = <<>>
    /\ inBackoff' = TRUE
    /\ lastReconnectAttempt' = now - bootAt
    /\ attempt' = [pc |-> "done", late |-> attempt.late, fetch |-> FALSE]
    /\ UNCHANGED <<now, devPc, wifiStatus>>
    /\ UnchangedByAttempt

\* connectWiFi returns to loop(), after fetchWifiList if the fallback
\* connected.
RoundEnd(up) ==
    /\ attempt.pc = "done"
    /\ bootAt' = bootAt
    /\ LET d == IF attempt.fetch THEN FetchWifiList(Device, up) ELSE Device
       IN  /\ Becomes(d)
           /\ now' = d.clock
           /\ res' = d.resp
           /\ devLog' = [step |-> "connect", before |-> Conn(Device), events |-> d.log,
                         after |-> Conn(d), reading |-> Null]
    /\ devPc' = "report"
    /\ UNCHANGED <<envApiKey, latestGPSData, gpsFile, wifiFile, atRestart, accepted,
                   eventLoop, viewerVars, gps, gpsSignal, inRange, pushed>>
    /\ noFixSince' = Observed(up)

\* The WiFi.begin left behind by a failed round gets WL_CONNECTED: the
\* station associates while no function of the sketch is polling for it.
LateJoin ==
    /\ attempt.pc = "none"
    /\ "late" \in DOMAIN attempt
    /\ wifiStatus = "none"
    /\ attempt.late.net \in inRange
    /\ now - bootAt >= attempt.late.at
    /\ wifiStatus' = attempt.late.net.ssid
    /\ attempt' = NoAttempt
    /\ UNCHANGED <<now, devPc, inBackoff, lastReconnectAttempt>>
    /\ UnchangedByAttempt

\* fetchWifiList called on a device in any state, and answered by whatever
\* listens at the address of wifiApi.
DeviceFetch(reply) ==
    /\ devPc = "loop"
    /\ bootAt' = bootAt
    /\ LET d == IF wifiStatus = "none" THEN Device
                ELSE OnWifiReply(Device, reply.code, reply.isArray, reply.list)
       IN  /\ Becomes(d)
           /\ devLog' = [step |-> "fetch", before |-> Conn(Device), events |-> <<>>,
                         after |-> Conn(d), reading |-> Null, reply |-> reply]
    /\ UNCHANGED <<now, serverVars, viewerVars, devPc, gps, gpsSignal, inRange,
                   pushed, noFixSince>>

\* The request the device sends for a reading.
DeviceQuery(pos) ==
    [key |-> Str("keyvalue"), fix |-> Undefined,
     lat |-> DecimalString(pos.lat), lng |-> DecimalString(pos.lng),
     speed |-> DecimalString(pos.speed), alt |-> DecimalString(pos.alt),
     sats |-> Undefined, hdop |-> Undefined]

\* gps.location.age() at wall-clock time t; Null for a reading never taken.
Age(g, t) == IF g.valid THEN t - g.at.ms ELSE Null

\* A push of any valid reading, whatever its age.
ShouldPush_AnyAge(g, t, wifi) == g.valid /\ wifi # "none"

\* if (gps.location.isValid() && gps.location.age() < 2000) ...
\*     if (WiFi.status() == WL_CONNECTED)
ShouldPush(g, t, wifi) == g.valid /\ Age(g, t) < MaxAgeMs /\ wifi # "none"

\* A device that gives up its WiFi connection when a push fails.
HandleResponse_DropsWifi(d, code) ==
    IF code = 200 THEN d
    ELSE [d EXCEPT !.wifiStatus = "none", !.inBackoff = TRUE,
                   !.lastReconnectAttempt = d.clock - bootAt]

\* if (httpCode > 0) printf(...) else printf(...): the response is only logged.
HandleResponse(d, code) == d

\* loop(), lines 173-206: read the receiver, push a fresh valid reading if
\* WiFi is connected, delay(2000).  up: whether the push reaches the server.
DeviceReport(up) ==
    /\ devPc = "report" \/ (devPc = "loop" /\ wifiStatus # "none")
    /\ bootAt' = bootAt
    /\ gps' = IF gpsSignal # Null
              THEN [valid |-> TRUE, pos |-> gpsSignal, at |-> [ms |-> now]]
              ELSE gps
    /\ LET send == ShouldPush(gps', now, wifiStatus)
       IN  /\ IF send /\ up
              THEN ReceiveData(DeviceQuery(gps'.pos), TRUE)
              ELSE UNCHANGED serverVars
           /\ LET code == IF up THEN res'.code ELSE -1
                  d == IF send
                       THEN HandleResponse(
                                Logged(Device, [ev |-> "push", code |-> code,
                                                wifi |-> wifiStatus,
                                                valid |-> gps'.valid,
                                                age |-> Age(gps', now)]),
                                code)
                       ELSE Device
              IN  /\ Becomes(d)
                  /\ pushed' = IF send
                               THEN [q |-> DeviceQuery(gps'.pos), code |-> code]
                               ELSE pushed
                  /\ devLog' = [step |-> "report", before |-> Conn(Device),
                                events |-> d.log, after |-> Conn(d),
                                reading |-> [valid |-> gps'.valid,
                                             age |-> Age(gps', now)]]
    /\ now' = now + LoopDelayMs
    /\ devPc' = "loop"
    /\ UNCHANGED <<viewerVars, gpsSignal, inRange>>
    /\ noFixSince' = Observed(up)

\* Power is cut: RAM is lost, the flash file system stays as it is.
PowerCycle ==
    /\ devPc # "off"
    /\ devPc' = "off"
    /\ wifiStatus' = "none"
    /\ devLog' = NoLog
    /\ noFixSince' = Null
    /\ UNCHANGED <<now, serverVars, viewerVars, bootAt, inBackoff,
                   lastReconnectAttempt, dynamicNetworks, spiffsWifi, spiffsMounted,
                   attempt,
                   gps, gpsSignal, inRange, pushed>>

\* The receiver starts to report position pos, or loses the satellites.
GpsAcquire(pos) ==
    /\ gpsSignal # pos
    /\ gpsSignal' = pos
    /\ noFixSince' = Null
    /\ UNCHANGED <<now, serverVars, viewerVars, devPc, bootAt, wifiStatus, inBackoff,
                   lastReconnectAttempt, dynamicNetworks, spiffsWifi, spiffsMounted,
                   attempt,
                   devLog, gps, inRange, pushed>>

GpsLost ==
    /\ gpsSignal # Null
    /\ gpsSignal' = Null
    /\ noFixSince' = IF wifiStatus # "none" THEN [ms |-> now] ELSE Null
    /\ UNCHANGED <<now, serverVars, viewerVars, devPc, bootAt, wifiStatus, inBackoff,
                   lastReconnectAttempt, dynamicNetworks, spiffsWifi, spiffsMounted,
                   attempt,
                   devLog, gps, inRange, pushed>>

\* An access point goes out of range (the device on it loses WiFi), or
\* comes into range.
ApDown(net) ==
    /\ net \in inRange
    /\ inRange' = inRange \ {net}
    /\ wifiStatus' = IF wifiStatus = net.ssid THEN "none" ELSE wifiStatus
    /\ noFixSince' = IF wifiStatus' = "none" THEN Null ELSE noFixSince
    /\ UNCHANGED <<now, serverVars, viewerVars, devPc, bootAt, inBackoff,
                   lastReconnectAttempt, dynamicNetworks, spiffsWifi, spiffsMounted,
                   attempt,
                   devLog, gps, gpsSignal, pushed>>

ApUp(net) ==
    /\ net \notin inRange
    /\ inRange' = inRange \cup {net}
    /\ UNCHANGED <<now, serverVars, viewerVars, devPc, bootAt, wifiStatus, inBackoff,
                   lastReconnectAttempt, dynamicNetworks, spiffsWifi, spiffsMounted,
                   attempt,
                   devLog, gps, gpsSignal, pushed, noFixSince>>

DeviceInit ==
    /\ devPc = "off"
    /\ bootAt = 0
    /\ wifiStatus = "none"
    /\ inBackoff = FALSE
    /\ lastReconnectAttempt = 0
    /\ dynamicNetworks = <<>>
    /\ spiffsWifi = NoFile
    /\ spiffsMounted = FALSE
    /\ attempt = NoAttempt
    /\ devLog = NoLog
    /\ gps = [valid |-> FALSE, pos |-> Null, at |-> Null]
    /\ gpsSignal = Null
    /\ inRange = {DefaultNet}
    /\ pushed = Null
    /\ noFixSince = Null

----------------------------------------------------------------------------
(* Inputs *)

MaxTime == 2000
TickMs == 1000

P1 == [lat |-> Str("1"), lng |-> Str("2"), speed |-> Str("3"), alt |-> Str("2")]
P2 == [lat |-> Str("2"), lng |-> Str("1"), speed |-> Str("1"), alt |-> Str("3")]
PBad == [lat |-> Str("abc"), lng |-> Str("1"), speed |-> Str("1"), alt |-> Str("2x")]
PNone == [lat |-> Undefined, lng |-> Undefined, speed |-> Undefined, alt |-> Undefined]

Query(k, f, p, s, h) ==
    [key |-> k, fix |-> f, lat |-> p.lat, lng |-> p.lng, speed |-> p.speed,
     alt |-> p.alt, sats |-> s, hdop |-> h]

EnvKeys == {Str("keyvalue"), Undefined}

\* Requests with the key the device sends: fix packets, no-fix packets (the
\* fix parameter "false" or left out), each with and without sats and hdop.
FixQueries ==
    {Query(Str("keyvalue"), Str("true"), p, sh[1], sh[2]) :
        p \in {P1, P2, PBad, PNone},
        sh \in {<<Undefined, Undefined>>, <<Str("3"), Undefined>>,
                <<Undefined, Str("2")>>}}
    \cup {Query(Str("keyvalue"), Str("1"), P1, Undefined, Undefined)}

NoFixQueries ==
    {Query(Str("keyvalue"), fp[1], fp[2], sh[1], sh[2]) :
        fp \in {<<Undefined, P1>>, <<Str("false"), PNone>>},
        sh \in {<<Undefined, Undefined>>, <<Str("3"), Undefined>>,
                <<Str(""), Undefined>>, <<Undefined, Str("2")>>}}

\* Requests with another key, or none.
OtherKeyQueries ==
    {Query(k, f, P2, Str("3"), Undefined) :
        k \in {Str("wrong"), Undefined}, f \in {Str("true"), Undefined}}

\* Requests during which the write of the document fails.
FaultQueries ==
    {Query(Str("keyvalue"), Str("true"), P2, Undefined, Undefined)}

Queries == FixQueries \cup NoFixQueries \cup OtherKeyQueries

\* A document left by the older server (no fix field).
LegacyFiles == {[lat |-> Num(3), lng |-> Num(3), speed |-> Num(3), alt |-> Num(3),
                 timestamp |-> Iso(0)]}

ServerInit ==
    /\ envApiKey \in EnvKeys
    /\ latestGPSData = Null
    /\ wifiFile = NoFile
    /\ res = NoResponse
    /\ atRestart = NoFile
    /\ accepted = "never"
    /\ eventLoop = Quiet

\* A server started for the first time, and requests of any client.
Init ==
    /\ now = 0
    /\ ServerInit
    /\ gpsFile = NoFile
    /\ ViewerInit
    /\ popupData = TRUE
    /\ DeviceInit

Next ==
    \/ \E q \in Queries : Ingest(q, TRUE)
    \/ \E q \in FaultQueries : Ingest(q, FALSE)
    \/ ReadLatest
    \/ Restart
    \/ (now + TickMs <= MaxTime /\ Tick(TickMs))

Spec == Init /\ [][Next]_vars

\* The credential list: a server whose wifi.json is absent or holds one
\* network, and reads, upserts and removals with the right key, a wrong key
\* and no key.
Ssids == {"A", "B", "C"}
Passwords == {"x", "y"}
Keys == {Str("keyvalue"), Str("wrong"), Undefined}

WifiBodies ==
    {[ssid |-> Str(s), password |-> Str(p)] : s \in Ssids, p \in Passwords}
    \cup {[ssid |-> Str("A"), password |-> Undefined],
          [ssid |-> Undefined, password |-> Str("x")],
          [ssid |-> Str(""), password |-> Str("x")],
          [ssid |-> Str("A"), password |-> Str("")]}

WifiInit ==
    /\ now = 0
    /\ envApiKey \in EnvKeys
    /\ latestGPSData = Null
    /\ gpsFile = NoFile
    /\ wifiFile \in {NoFile, JsonArray(<<[ssid |-> "B", password |-> "x"]>>)}
    /\ res = NoResponse
    /\ atRestart = NoFile
    /\ accepted = "never"
    /\ eventLoop = Quiet
    /\ ViewerInit
    /\ popupData = TRUE
    /\ DeviceInit

WifiNext ==
    \/ \E k \in Keys, b \in WifiBodies :
        PutWifi([key |-> k], b) /\ UNCHANGED <<now, viewerVars, deviceVars>>
    \/ \E k \in Keys, s \in Ssids :
        DeleteWifi([key |-> k], s) /\ UNCHANGED <<now, viewerVars, deviceVars>>
    \/ \E k \in Keys :
        ReadWifi([key |-> k]) /\ UNCHANGED <<now, viewerVars, deviceVars>>

WifiSpec == WifiInit /\ [][WifiNext]_vars

\* Ingest requests and reads that are in flight together: requests arrive
\* and wait, the event loop starts their handlers, the handler of an ingest
\* runs statement by statement, reads are answered in between.
MaxRaceTime == 2000
MaxInFlight == 2

RaceQueries ==
    {Query(Str("keyvalue"), Str("true"), P1, Undefined, Undefined),
     Query(Str("keyvalue"), Str("true"), P2, Str("3"), Undefined),
     Query(Str("keyvalue"), Undefined, PNone, Str("2"), Str("1"))}

RaceInit ==
    /\ now = 0
    /\ envApiKey = Str("keyvalue")
    /\ latestGPSData = Null
    /\ gpsFile = NoFile
    /\ wifiFile = NoFile
    /\ res = NoResponse
    /\ atRestart = NoFile
    /\ accepted = "never"
    /\ eventLoop = Quiet
    /\ ViewerInit
    /\ popupData = TRUE
    /\ DeviceInit

RaceNext ==
    \/ \E q \in RaceQueries :
        /\ Cardinality(eventLoop.queue) < MaxInFlight
        /\ Arrive(q)
        /\ UNCHANGED <<now, viewerVars, deviceVars>>
    \/ \E q \in RaceQueries, wok \in BOOLEAN :
        BeginIngest(q, wok) /\ UNCHANGED <<now, viewerVars, deviceVars>>
    \/ StepIngest /\ UNCHANGED <<now, viewerVars, deviceVars>>
    \/ (MayStart /\ ReadLatest)
    \/ (now + TickMs <= MaxRaceTime /\ Tick(TickMs))

RaceSpec == RaceInit /\ [][RaceNext]_vars

\* Changes of the credential list that are in flight together: upserts and
\* a removal of distinct ssids with the right key, and an upsert with a wrong
\* key, arrive and wait; the event loop starts their handlers, which run
\* statement by statement.
WifiRequests ==
    {[method |-> "put", key |-> Str("keyvalue"), ssid |-> Str("A"), password |-> Str("x")],
     [method |-> "put", key |-> Str("keyvalue"), ssid |-> Str("B"), password |-> Str("y")],
     [method |-> "delete", key |-> Str("keyvalue"), ssid |-> Str("C")],
     [method |-> "put", key |-> Str("wrong"), ssid |-> Str("C"), password |-> Str("y")]}

WifiRaceInit ==
    /\ now = 0
    /\ envApiKey = Str("keyvalue")
    /\ latestGPSData = Null
    /\ gpsFile = NoFile
    /\ wifiFile \in {NoFile, JsonArray(<<[ssid |-> "B", password |-> "x"],
                                         [ssid |-> "C", password |-> "x"]>>)}
    /\ res = NoResponse
    /\ atRestart = NoFile
    /\ accepted = "never"
    /\ eventLoop = [queue |-> {}, running |-> Idle, committed |-> {}]
    /\ ViewerInit
    /\ popupData = TRUE
    /\ DeviceInit

WifiRaceNext ==
    \/ \E rq \in WifiRequests :
        /\ Cardinality(eventLoop.queue) < MaxInFlight
        /\ ArriveWifi(rq)
        /\ UNCHANGED <<now, viewerVars, deviceVars>>
    \/ \E rq \in WifiRequests :
        BeginWifi(rq) /\ UNCHANGED <<now, viewerVars, deviceVars>>
    \/ \E p \in WifiProcs :
        StepWifi(p) /\ UNCHANGED <<now, viewerVars, deviceVars>>
    \/ (MayStart /\ ReadWifi([key |-> Str("keyvalue")])
                 /\ UNCHANGED <<now, viewerVars, deviceVars>>)

WifiRaceSpec == WifiRaceInit /\ [][WifiRaceNext]_vars

\* The same server started on the document an older server left.
UpgradeInit ==
    /\ now = 0
    /\ ServerInit
    /\ gpsFile \in {NoFile} \cup LegacyFiles
    /\ ViewerInit
    /\ popupData = TRUE
    /\ DeviceInit

UpgradeSpec == UpgradeInit /\ [][Next]_vars

\* The pages polling a server that receives fix and no-fix packets, over
\* spans of time around the staleness threshold.
MaxViewTime == 61000
ViewTicks == {60000, 61000}

ViewQueries ==
    {Query(Str("keyvalue"), Str("true"), P1, Undefined, Undefined),
     Query(Str("keyvalue"), Str("true"), PNone, Undefined, Undefined),
     Query(Str("keyvalue"), Undefined, PNone, Str("3"), Undefined)}

ViewInit ==
    /\ now = 0
    /\ ServerInit
    /\ envApiKey = Str("keyvalue")
    /\ gpsFile = NoFile
    /\ ViewerInit
    /\ popupData = TRUE
    /\ DeviceInit

ViewNext ==
    \/ \E q \in ViewQueries : Ingest(q, TRUE)
    \/ \E v \in Viewers, up \in BOOLEAN : Poll(v, up)
    \/ \E d \in ViewTicks : (now + d <= MaxViewTime /\ Tick(d))

ViewSpec == ViewInit /\ [][ViewNext]_vars

\* The device, the server and one page, over a span of time longer than the
\* staleness threshold.
MaxRunTime == 62000

HomeNet == [ssid |-> "home", password |-> "secret"]

Readings == {[lat |-> 1, lng |-> 2, speed |-> 3, alt |-> 2]}

E2EInit ==
    /\ now = 0
    /\ envApiKey = Str("keyvalue")
    /\ latestGPSData = Null
    /\ gpsFile = NoFile
    /\ wifiFile = JsonArray(<<HomeNet>>)
    /\ res = NoResponse
    /\ atRestart = NoFile
    /\ accepted = "never"
    /\ eventLoop = Quiet
    /\ ViewerInit
    /\ popupData = TRUE
    /\ DeviceInit

\* startTracking: a page polls when it is opened and then every
\* updateInterval ms.  PollDue: the timer of an open page has fired and its
\* poll has not run yet.
PollIntervalMs == 2000

PollDue(v) == lastPoll[v].at # Null /\ now - lastPoll[v].at.ms >= PollIntervalMs

E2ENext ==
    \/ \E up \in BOOLEAN : DeviceSetup(up, TRUE)
    \/ \E up \in BOOLEAN : (now < MaxRunTime /\ ~PollDue("a") /\ DeviceReport(up))
    \/ \E pos \in Readings : GpsAcquire(pos)
    \/ GpsLost
    \/ ((lastPoll["a"].at = Null \/ PollDue("a")) /\ Poll("a", TRUE))

E2ESpec == E2EInit /\ [][E2ENext]_vars

\* The device's connectivity: a device without GPS reception against a
\* server that holds two networks for it, with access points that come and
\* go, a server that may be unreachable or configured with another key, a
\* flash file system that may fail to mount, and power cuts in the first
\* seconds.
MaxDevTime == 44000
PowerCutBy == 10000

WorkNet == [ssid |-> "work", password |-> "hunter2"]

AccessPoints == {HomeNet, WorkNet, DefaultNet}

DevInit ==
    /\ now = 0
    /\ envApiKey \in {Str("keyvalue"), Undefined}
    /\ latestGPSData = Null
    /\ gpsFile = NoFile
    /\ wifiFile = JsonArray(<<HomeNet, WorkNet>>)
    /\ res = NoResponse
    /\ atRestart = NoFile
    /\ accepted = "never"
    /\ eventLoop = Quiet
    /\ ViewerInit
    /\ popupData = TRUE
    /\ DeviceInit

DevNext ==
    \/ \E up, mount \in BOOLEAN : (now < MaxDevTime /\ DeviceSetup(up, mount))
    \/ \E up \in BOOLEAN : (now < MaxDevTime /\ DeviceReconnect(up))
    \/ \E up \in BOOLEAN : (now < MaxDevTime /\ DeviceReport(up))
    \/ (now <= PowerCutBy /\ PowerCycle)
    \/ \E net \in AccessPoints : ApDown(net)
    \/ \E net \in AccessPoints : ApUp(net)

DevSpec == DevInit /\ [][DevNext]_vars

\* The device's reports: a device on the fallback network with a receiver
\* that gains and loses the satellites, against a server that may be
\* unreachable or configured with another key.
MaxPushTime == 12000

PushInit ==
    /\ now = 0
    /\ envApiKey \in {Str("keyvalue"), Undefined}
    /\ latestGPSData = Null
    /\ gpsFile = NoFile
    /\ wifiFile = NoFile
    /\ res = NoResponse
    /\ atRestart = NoFile
    /\ accepted = "never"
    /\ eventLoop = Quiet
    /\ ViewerInit
    /\ popupData = TRUE
    /\ DeviceInit

PushNext ==
    \/ \E up \in BOOLEAN : (now < MaxPushTime /\ DeviceSetup(up, TRUE))
    \/ \E up \in BOOLEAN : (now < MaxPushTime /\ DeviceReconnect(up))
    \/ \E up \in BOOLEAN : (now < MaxPushTime /\ DeviceReport(up))
    \/ \E pos \in Readings : GpsAcquire(pos)
    \/ GpsLost
    \/ ApDown(DefaultNet)
    \/ ApUp(DefaultNet)

PushSpec == PushInit /\ [][PushNext]_vars

\* The connection round followed step by step: a device that has booted
\* (with the fallback in range or not), access points that come and go
\* during the first StartBy ms, rounds that begin in that time, and a clock
\* followed for longer than a round over three candidates can take.
StartBy == 12000
MaxTryTime == 44000

TryNext ==
    \/ \E up \in BOOLEAN : (now < StartBy /\ DeviceSetup(up, TRUE))
    \/ (now < StartBy /\ RoundBegin)
    \/ (now < MaxTryTime /\ SkipRound)
    \/ \E join \in {JoinNever, 0, 9500, 10000, 12000} : TryBegin(join)
    \/ (now < MaxTryTime /\ TryPoll)
    \/ TryReturn
    \/ RoundFail
    \/ \E up \in BOOLEAN : RoundEnd(up)
    \/ LateJoin
    \/ \E up \in BOOLEAN : (now < MaxTryTime /\ DeviceReport(up))
    \/ \E net \in AccessPoints : (now < StartBy /\ ApDown(net))
    \/ \E net \in AccessPoints : (now < StartBy /\ ApUp(net))

TrySpec ==
    /\ DevInit
    /\ [][TryNext]_vars
    /\ WF_vars(\E join \in {JoinNever, 0, 9500, 10000, 12000} : TryBegin(join))
    /\ WF_vars(now < MaxTryTime /\ TryPoll)
    /\ WF_vars(TryReturn)
    /\ WF_vars(RoundFail)
    /\ WF_vars(\E up \in BOOLEAN : RoundEnd(up))
    /\ WF_vars(now < MaxTryTime /\ SkipRound)
    /\ WF_vars(\E up \in BOOLEAN : (now < MaxTryTime /\ DeviceReport(up)))

\* fetchWifiList over the states a booted device can be in (a mounted file
\* system holds the list that is in memory; without one the list lives in
\* memory only) and over the replies a GET can get: the server's list, its
\* 403, a 500, a 200 whose body is not a JSON array, and no reply.
DeviceLists == {<<>>, <<HomeNet>>, <<HomeNet, WorkNet>>}

FetchReplies ==
    {[code |-> 200, isArray |-> TRUE, list |-> l] : l \in DeviceLists}
        \cup {[code |-> 200, isArray |-> FALSE, list |-> <<>>],
              [code |-> 403, isArray |-> FALSE, list |-> <<>>],
              [code |-> 500, isArray |-> TRUE, list |-> <<WorkNet>>],
              [code |-> -1, isArray |-> FALSE, list |-> <<>>]}

FetchInit ==
    /\ now = 0
    /\ envApiKey = Str("keyvalue")
    /\ latestGPSData = Null
    /\ gpsFile = NoFile
    /\ wifiFile = NoFile
    /\ res = NoResponse
    /\ atRestart = NoFile
    /\ accepted = "never"
    /\ eventLoop = Quiet
    /\ ViewerInit
    /\ popupData = TRUE
    /\ devPc = "loop"
    /\ bootAt = 0
    /\ inBackoff = FALSE
    /\ lastReconnectAttempt = 0
    /\ dynamicNetworks \in DeviceLists
    /\ spiffsMounted \in BOOLEAN
    /\ spiffsWifi \in {NoFile, JsonArray(dynamicNetworks)}
    /\ spiffsMounted \/ spiffsWifi = NoFile
    /\ (spiffsMounted /\ spiffsWifi = NoFile) => dynamicNetworks = <<>>
    /\ inRange = AccessPoints
    /\ wifiStatus \in {"none", DefaultNet.ssid}
                        \cup {dynamicNetworks[k].ssid : k \in DOMAIN dynamicNetworks}
    /\ attempt = NoAttempt
    /\ devLog = NoLog
    /\ gps = [valid |-> FALSE, pos |-> Null, at |-> Null]
    /\ gpsSignal = Null
    /\ pushed = Null
    /\ noFixSince = Null

FetchNext ==
    \/ \E reply \in FetchReplies : DeviceFetch(reply)
    \/ \E net \in AccessPoints : ApDown(net)
    \/ \E net \in AccessPoints : ApUp(net)

FetchSpec == FetchInit /\ [][FetchNext]_vars

\* The device's control loop running for ever: setup runs when the device is
\* powered, loop() is called again whenever it returns.  The environment
\* (the access points in range) changes during the first QuietAfter ms
\* and then stays as it is; the clock is followed long enough after that
\* for a cool-down and a full round.
QuietAfter == 12000
MaxLiveTime == 80000

\* A device that was provisioned with two networks earlier, against a server
\* now configured with another key: every push and every fetch is refused.
LiveInit ==
    /\ now = 0
    /\ envApiKey = Undefined
    /\ latestGPSData = Null
    /\ gpsFile = NoFile
    /\ wifiFile = JsonArray(<<HomeNet, WorkNet>>)
    /\ res = NoResponse
    /\ atRestart = NoFile
    /\ accepted = "never"
    /\ eventLoop = Quiet
    /\ ViewerInit
    /\ popupData = TRUE
    /\ devPc = "off"
    /\ bootAt = 0
    /\ wifiStatus = "none"
    /\ inBackoff = FALSE
    /\ lastReconnectAttempt = 0
    /\ dynamicNetworks = <<>>
    /\ spiffsWifi = JsonArray(<<HomeNet, WorkNet>>)
    /\ spiffsMounted = FALSE
    /\ attempt = NoAttempt
    /\ devLog = NoLog
    /\ gps = [valid |-> FALSE, pos |-> Null, at |-> Null]
    /\ gpsSignal \in Readings \cup {Null}
    /\ inRange \in SUBSET AccessPoints
    /\ pushed = Null
    /\ noFixSince = Null

LiveNext ==
    \/ \E up, mount \in BOOLEAN : (now < MaxLiveTime /\ DeviceSetup(up, mount))
    \/ \E up \in BOOLEAN : (now < MaxLiveTime /\ DeviceReconnect(up))
    \/ \E up \in BOOLEAN : (now < MaxLiveTime /\ DeviceReport(up))
    \/ \E net \in AccessPoints : (now <= QuietAfter /\ ApDown(net))
    \/ \E net \in AccessPoints : (now <= QuietAfter /\ ApUp(net))

LiveSpec ==
    /\ LiveInit
    /\ [][LiveNext]_vars
    /\ WF_vars(\E up, mount \in BOOLEAN : (now < MaxLiveTime /\ DeviceSetup(up, mount)))
    /\ WF_vars(\E up \in BOOLEAN : (now < MaxLiveTime /\ DeviceReconnect(up)))
    /\ WF_vars(\E up \in BOOLEAN : (now < MaxLiveTime /\ DeviceReport(up)))

----------------------------------------------------------------------------
(* Properties of the server *)

Accepted(q) == CheckKey(q, envApiKey)

Position(d) ==
    IF d = Null THEN <<Null, Null, Null, Null>> ELSE <<d.lat, d.lng, d.speed, d.alt>>

LastFixAt(d) == IF d = Null THEN Null ELSE d.lastFixTimestamp

Diagnostic(d, f) == IF d = Null THEN Null ELSE d[f]

\* The number a request parameter states: a parameter that is a decimal
\* numeral states that number, any other states none and stands for itself.
Stated(v) ==
    IF v \in {Str(s) : s \in WellFormed} THEN Num(NumeralValue[v.str]) ELSE v

\* C2: every accepted no-fix packet leaves the stored lat, lng, speed and alt
\* as they were before the request, whatever the prior fix state.
C2_NoFixKeepsPosition ==
    [][\A q \in Queries, wok \in BOOLEAN :
        (ReceiveData(q, wok) /\ Accepted(q) /\ ~IsFix(q))
            => Position(FixState)' = Position(FixState)]_vars

\* C3: every accepted fix packet stores exactly the packet's lat, lng, speed
\* and alt, sets the stored fix flag and sets lastFixTimestamp to the receipt
\* time.
C3_FixStoresPacketValues ==
    [][\A q \in Queries, wok \in BOOLEAN :
        (ReceiveData(q, wok) /\ Accepted(q) /\ IsFix(q))
            => /\ Position(FixState)' =
                    <<Stated(q.lat), Stated(q.lng), Stated(q.speed), Stated(q.alt)>>
               /\ FixState'.fix = TRUE
               /\ FixState'.lastFixTimestamp = Iso(now)]_vars

\* C5: after a restart that found a persisted fix, and as long as no fix
\* packet has been accepted since, every read of the latest fix returns that
\* fix's lat, lng, speed, alt and lastFixTimestamp.
C5_RestartResumesFromPersistedFix ==
    (atRestart # NoFile /\ res.op = "latest-gps")
        => /\ res.code = 200
           /\ Position(res.body) = Position(ToJson(atRestart))
           /\ res.body.lastFixTimestamp = atRestart.lastFixTimestamp

\* C8: every accepted packet sets lastPacketTimestamp to its receipt time, and
\* a request changes lastFixTimestamp only if it is an accepted fix packet:
\* no-fix packets, rejected requests and reads leave it as it was.
C8_TimestampsAdvance ==
    [][/\ \A q \in Queries, wok \in BOOLEAN :
            ReceiveData(q, wok)
                => /\ Accepted(q) => FixState'.lastPacketTimestamp = Iso(now)
                   /\ ~(Accepted(q) /\ IsFix(q))
                        => LastFixAt(FixState)' = LastFixAt(FixState)
       /\ GetLatestGps => LastFixAt(FixState)' = LastFixAt(FixState)]_vars

\* C9: whenever a fix state exists (in memory, or as a read would hydrate it
\* from the durable document) and its lastFixTimestamp is set,
\* lastFixTimestamp <= lastPacketTimestamp.
C9_LastFixNotAfterLastPacket ==
    \A d \in {latestGPSData, FixState} :
        (d # Null /\ d.lastFixTimestamp # Null)
            => d.lastFixTimestamp.iso <= d.lastPacketTimestamp.iso

\* C9 witness: a fix was received, and a later no-fix packet moved
\* lastPacketTimestamp past it.
C9_Witness ==
    /\ latestGPSData # Null
    /\ latestGPSData.lastFixTimestamp # Null
    /\ latestGPSData.lastFixTimestamp.iso < latestGPSData.lastPacketTimestamp.iso
    /\ res.op = "receivedata" /\ res.code = 200

\* C10: an accepted packet overwrites sats (hdop) with the packet's value if
\* the packet has the field, and leaves the stored value as it was if not,
\* each field on its own.
C10_DiagnosticsCarriedForward ==
    [][\A q \in Queries, wok \in BOOLEAN :
        (ReceiveData(q, wok) /\ Accepted(q))
            => /\ q.sats = Undefined
                    => Diagnostic(FixState, "sats")' = Diagnostic(FixState, "sats")
               /\ q.hdop = Undefined
                    => Diagnostic(FixState, "hdop")' = Diagnostic(FixState, "hdop")
               /\ q.sats # Undefined => FixState'.sats = Packet(q, Null).sats
               /\ q.hdop # Undefined => FixState'.hdop = Packet(q, Null).hdop]_vars

\* A fix request in which lat, lng, speed or alt is missing or is read by
\* parseFloat as NaN.
NotFinite(q) ==
    \E f \in {"lat", "lng", "speed", "alt"} : ParseFloat(q[f]) = NaN

\* C11: a request with the right key and fix=true in which lat, lng, speed or
\* alt is missing or not a finite number is answered 400, and changes neither
\* latestGPSData nor the document.
C11_InvalidPacketRejected ==
    [][\A q \in FixQueries :
        (q.key = envApiKey /\ IsFix(q) /\ NotFinite(q) /\ ReceiveData(q, TRUE))
            => /\ res'.code = 400
               /\ latestGPSData' = latestGPSData
               /\ gpsFile' = gpsFile]_vars

\* C12: a request to /receivedata whose key is not the configured secret is
\* answered 403 and changes neither latestGPSData nor the document, whatever
\* its other parameters.
C12_WrongKeyRejected ==
    [][\A q \in Queries :
        (q.key # envApiKey /\ ReceiveData(q, TRUE))
            => /\ res'.code = 403
               /\ latestGPSData' = latestGPSData
               /\ gpsFile' = gpsFile]_vars

\* C12 witness: a request was rejected while a fix state was stored and
\* persisted.
C12_Witness ==
    /\ res.op = "receivedata" /\ res.code = 403
    /\ latestGPSData # Null
    /\ gpsFile # NoFile

\* C13: a read of the latest fix is answered 404 exactly when no packet has
\* ever been accepted and there is no document.
C13_NotFoundOnlyBeforeFirstPacket ==
    res.op = "latest-gps"
        => (res.code = 404 <=> (accepted = "never" /\ gpsFile = NoFile))

\* C13, amended: a read of the latest fix is answered 404 exactly when no
\* packet has been accepted since the process started and there is no
\* document; otherwise it returns a record.
C13_NotFoundOnlyWithoutStateOrDocument ==
    res.op = "latest-gps"
        => /\ res.code = 404 <=> (accepted # "this run" /\ gpsFile = NoFile)
           /\ res.code # 404 => (res.code = 200 /\ "lat" \in DOMAIN res.body)

\* C13 witness: a first packet without a fix was accepted, and the read
\* returned a record whose position is null.
C13_Witness ==
    /\ res.op = "latest-gps" /\ res.code = 200
    /\ accepted = "this run"
    /\ res.body.lastFixTimestamp = Null
    /\ res.body.lat = Null

----------------------------------------------------------------------------
(* End-to-end properties *)

\* C1: while the device has been connected to a reachable server without a
\* valid GPS position for more than 60 s, a page that has polled more than
\* 60 s into that period shows No GPS Signal (and so, not Offline).
C1_NoSignalNotOffline ==
    (/\ noFixSince # Null
     /\ lastPoll["a"].at # Null
     /\ lastPoll["a"].at.ms - noFixSince.ms > StaleMs)
        => viewer["a"].status = "No GPS Signal"

\* C4: once the device's push has been acknowledged, a read of the latest fix
\* returns a record whose lat, lng, speed and alt are the pushed values.
C4_DevicePushIsStored ==
    (pushed # Null /\ pushed.code = 200 /\ res.op = "latest-gps")
        => /\ res.code = 200
           /\ Position(res.body) = <<Stated(pushed.q.lat), Stated(pushed.q.lng),
                                     Stated(pushed.q.speed), Stated(pushed.q.alt)>>

----------------------------------------------------------------------------
(* Properties of the viewer *)

\* C6: after every poll, the page shows the classification of what the poll
\* fetched: Offline if no record or if the record's lastPacketTimestamp is more
\* than 60 s old (exactly 60 s is not), else No GPS Signal if its fix flag is
\* false, else Online.
C6_ThreeWayRule ==
    LET Classify(data, t) ==
            IF data = Undefined THEN "Offline"
            ELSE IF t - data.lastPacketTimestamp.iso > 60000 THEN "Offline"
            ELSE IF data.fix = FALSE THEN "No GPS Signal"
            ELSE "Online"
    IN  \A v \in Viewers :
            lastPoll[v].at # Null
                => viewer[v].status = Classify(lastPoll[v].data, lastPoll[v].at.ms)

Displayed(v) == [lastPosition |-> viewer[v].lastPosition, marker |-> viewer[v].marker]

\* C38: a poll that returns a record without a fix leaves lastPosition and
\* the marker as they were and sets hasFix and lastPacketTime from the
\* record; and lastPosition or the marker change only in a poll that returns
\* a record with a fix.
C38_NoFixPollKeepsPosition ==
    [][\A v \in Viewers :
        /\ \A up \in BOOLEAN :
            (/\ Poll(v, up)
             /\ lastPoll'[v].data # Undefined
             /\ lastPoll'[v].data.fix = FALSE)
                => /\ Displayed(v)' = Displayed(v)
                   /\ viewer'[v].hasFix = FALSE
                   /\ viewer'[v].lastPacketTime =
                        ParseDate(lastPoll'[v].data.lastPacketTimestamp)
        /\ Displayed(v)' # Displayed(v)
            => /\ \E up \in BOOLEAN : Poll(v, up)
               /\ lastPoll'[v].data # Undefined
               /\ lastPoll'[v].data.fix = TRUE]_vars

\* C38 witness: a page that shows the position of an earlier fix has polled
\* a record without a fix, of a later packet.
C38_Witness ==
    \E v \in Viewers :
        /\ lastPoll[v].data # Undefined
        /\ lastPoll[v].data.fix = FALSE
        /\ viewer[v].hasFix = FALSE
        /\ viewer[v].lastPosition # Null
        /\ viewer[v].marker # Null /\ viewer[v].marker.shown
        /\ viewer[v].lastFixTime # Null
        /\ viewer[v].lastPacketTime.ms > viewer[v].lastFixTime.ms

----------------------------------------------------------------------------
(* Properties of the device *)

\* The attempts and requests of the device's latest step, in order.
Events == IF devLog.step = "none" THEN <<>> ELSE devLog.events

\* The connection attempts among them.
RECURSIVE Tries(_)
Tries(events) ==
    IF events = <<>> THEN <<>>
    ELSE IF Head(events).ev = "try" THEN <<Head(events)>> \o Tries(Tail(events))
    ELSE Tries(Tail(events))

\* C14: in no step of the device, boot included, is the credential list
\* fetched after a connection that succeeded on a saved network: a fetch
\* follows a successful connection only if that connection was made on the
\* hardcoded fallback network.
C14_FetchOnlyAfterFallback ==
    \A i \in DOMAIN Events :
        Events[i].ev = "fetch"
            => ~\E j \in 1..(i - 1) :
                    /\ Events[j].ev = "try"
                    /\ Events[j].ok
                    /\ Events[j].kind = "saved"

\* The connection rounds started in the device's latest step.
Rounds == {i \in DOMAIN Events : Events[i].ev = "round"}

\* The candidates of a round over the saved list: the saved networks in
\* list order, then the fallback.
Candidates(list) ==
    [k \in 1..(Len(list) + 1) |->
        IF k <= Len(list) THEN [kind |-> "saved", net |-> list[k]]
        ELSE [kind |-> "fallback", net |-> DefaultNet]]

\* C15: in every connection round, at boot and in the loop, the device
\* tries the saved networks in list order, each once, then the hardcoded
\* fallback, and the round stops at the first candidate that connects:
\* the attempts are a prefix of the candidates, every attempt but the last
\* failed, and a round that stops before the last candidate stopped on a
\* connection.
C15_SavedInOrderThenFallback ==
    /\ Cardinality(Rounds) <= 1
    /\ Rounds = {} => Tries(Events) = <<>>
    /\ \A i \in Rounds :
        LET cands == Candidates(Events[i].list)
            tries == Tries(Events)
        IN  /\ Len(tries) \in 1..Len(cands)
            /\ \A k \in 1..Len(tries) :
                /\ tries[k].kind = cands[k].kind
                /\ tries[k].net = cands[k].net
                /\ k < Len(tries) => ~tries[k].ok
            /\ Len(tries) < Len(cands) => tries[Len(tries)].ok

\* A round over two saved networks that failed on both and connected on the
\* fallback.
C15_Witness ==
    /\ Rounds # {}
    /\ Len(Tries(Events)) = 3
    /\ ~Tries(Events)[1].ok
    /\ ~Tries(Events)[2].ok
    /\ Tries(Events)[3].ok
    /\ Tries(Events)[3].kind = "fallback"

\* The device's latest step ran a connection round that failed on every
\* candidate, or one in which a candidate connected.
RoundFailed ==
    /\ Rounds # {}
    /\ \A k \in DOMAIN Tries(Events) : ~Tries(Events)[k].ok

RoundConnected ==
    /\ Rounds # {}
    /\ \E k \in DOMAIN Tries(Events) : Tries(Events)[k].ok

\* C16: the device enters backoff (inBackoff set, lastReconnectAttempt set
\* to the time the round ended) exactly when a connection round has failed
\* on every saved network and on the fallback; a round in which a candidate
\* connects leaves the device connected to it and not in backoff; a step
\* without a round leaves inBackoff and the timer as they were.
C16_BackoffIffRoundFailed ==
    devLog.step # "none" =>
        /\ RoundFailed =>
            /\ Len(Tries(Events)) = Len(devLog.before.dynamicNetworks) + 1
            /\ devLog.after.inBackoff
            /\ devLog.after.lastReconnectAttempt = devLog.after.millis
            /\ devLog.after.wifiStatus = "none"
        /\ RoundConnected =>
            /\ ~devLog.after.inBackoff
            /\ devLog.after.wifiStatus = Tries(Events)[Len(Tries(Events))].net.ssid
            /\ devLog.after.lastReconnectAttempt = devLog.before.lastReconnectAttempt
        /\ Rounds = {} =>
            /\ devLog.after.inBackoff = devLog.before.inBackoff
            /\ devLog.after.lastReconnectAttempt = devLog.before.lastReconnectAttempt
        /\ (devLog.after.inBackoff /\ ~devLog.before.inBackoff) => RoundFailed

\* A round in the loop, over two saved networks and the fallback, that failed
\* on all three and put a device that was not in backoff into backoff.
C16_Witness ==
    /\ devLog.step = "connect"
    /\ RoundFailed
    /\ Len(Tries(Events)) = 3
    /\ ~devLog.before.inBackoff
    /\ devLog.after.inBackoff
    /\ devLog.after.lastReconnectAttempt > 0

\* C17: a loop iteration that finds the device disconnected and in backoff
\* makes no connection attempt while no more than 30 s have passed since the
\* failed round ended, and once more than 30 s have passed it starts a new
\* full round, over the saved list as it is then and from its first
\* candidate; the rest of the iteration makes no attempt either.
C17_BackoffWaitsThirtySeconds ==
    /\ (/\ devLog.step = "connect"
        /\ devLog.before.inBackoff
        /\ devLog.before.wifiStatus = "none")
        => LET waited == devLog.before.millis - devLog.before.lastReconnectAttempt
           IN  /\ waited <= BackoffMs => Events = <<>>
               /\ waited > BackoffMs =>
                    /\ Rounds = {1}
                    /\ Events[1].list = devLog.before.dynamicNetworks
                    /\ Tries(Events) # <<>>
                    /\ Tries(Events)[1] =
                         [ev |-> "try", kind |-> Candidates(Events[1].list)[1].kind,
                          net |-> Candidates(Events[1].list)[1].net,
                          ok |-> Tries(Events)[1].ok]
    /\ devLog.step = "report" => Tries(Events) = <<>>

\* A loop iteration that found the device in backoff with more than 30 s
\* passed and started a round.
C17_Witness ==
    /\ devLog.step = "connect"
    /\ devLog.before.inBackoff
    /\ devLog.before.wifiStatus = "none"
    /\ devLog.before.millis - devLog.before.lastReconnectAttempt > BackoffMs
    /\ Rounds # {}

\* The pushes of the device's latest step.
Pushes == {i \in DOMAIN Events : Events[i].ev = "push"}

FailedPush == \E i \in Pushes : Events[i].code # 200

\* C18: a failed push (no response, 403 or any status other than 200) leaves
\* the device's connectivity as it was: still connected to the same network,
\* inBackoff and the cool-down timer unchanged, no connection attempt in the
\* step; and the next report step, if the device is still connected with a
\* fresh valid reading, pushes again.
C18_FailedPushKeepsConnection ==
    [][/\ (devLog'.step = "report" /\ now' # now /\ FailedPush') =>
            /\ devLog'.after.wifiStatus = devLog'.before.wifiStatus
            /\ devLog'.after.wifiStatus # "none"
            /\ wifiStatus' = devLog'.before.wifiStatus
            /\ devLog'.after.inBackoff = devLog'.before.inBackoff
            /\ devLog'.after.lastReconnectAttempt = devLog'.before.lastReconnectAttempt
            /\ Tries(Events') = <<>>
       /\ (/\ FailedPush
           /\ devLog'.step = "report"
           /\ now' # now
           /\ wifiStatus # "none"
           /\ devLog'.reading.valid
           /\ devLog'.reading.age < MaxAgeMs)
            => Pushes' # {}]_vars

\* A push that the server refused with 403, in the device's second or a
\* later loop iteration, after which the device is still connected.
C18_Witness ==
    /\ devLog.step = "report"
    /\ \E i \in Pushes : Events[i].code = 403
    /\ wifiStatus = devLog.before.wifiStatus
    /\ wifiStatus # "none"
    /\ devLog.after.millis >= LoopDelayMs

\* C19: the device sends a packet in a loop iteration only if, in that
\* iteration, WiFi is connected and the reading is valid and younger than
\* 2 s: every push was made in the report part of loop from such a state,
\* and an iteration that finds WiFi down, no valid reading or a reading of
\* 2 s or older pushes nothing.
C19_PushOnlyFreshAndConnected ==
    /\ \A i \in Pushes :
        /\ devLog.step = "report"
        /\ Events[i].wifi # "none"
        /\ Events[i].valid
        /\ Events[i].age < MaxAgeMs
    /\ (/\ devLog.step = "report"
        /\ \/ devLog.before.wifiStatus = "none"
           \/ ~devLog.reading.valid
           \/ devLog.reading.age >= MaxAgeMs)
        => Pushes = {}

\* A loop iteration that pushed a fresh reading over WiFi.
C19_Witness ==
    /\ devLog.step = "report"
    /\ Pushes # {}
    /\ devLog.reading.valid
    /\ devLog.reading.age < MaxAgeMs
    /\ devLog.before.wifiStatus # "none"

\* C20: whenever the device replaces its in-memory credential list with a
\* list fetched from the server, the same list is on its flash file system
\* when the fetch returns, and still at the end of the step.
C20_FetchedListIsStored ==
    \A i \in DOMAIN Events :
        (Events[i].ev = "fetch" /\ Events[i].code = 200)
            => /\ Events[i].stored = JsonArray(Events[i].list)
               /\ devLog.after.spiffsWifi = JsonArray(devLog.after.dynamicNetworks)

\* A network the device would try in a round (a saved one or the fallback)
\* is in range.
CandidateReachable ==
    \/ DefaultNet \in inRange
    \/ \E k \in DOMAIN dynamicNetworks : dynamicNetworks[k] \in inRange

\* C21: the control loop is self-healing: whenever a candidate network is
\* in range, the device eventually is connected, unless the candidate goes
\* out of range again first.
C21_EventuallyConnected ==
    CandidateReachable ~> (wifiStatus # "none" \/ ~CandidateReachable)

\* The device in backoff, disconnected, with a candidate in range.
C21_Witness ==
    /\ devPc # "off"
    /\ inBackoff
    /\ wifiStatus = "none"
    /\ CandidateReachable

----------------------------------------------------------------------------
(* Properties of the credential list *)

\* The entries of a list for an ssid.
EntriesFor(list, ssid) == {k \in DOMAIN list : list[k].ssid = ssid}

\* The latest request was an upsert that the server carried out.
Upserted == res.op = "put wifi" /\ res.code = 200

\* C22: upsert is last-write-wins per ssid: an upsert of (A, x) into a list
\* without A followed by an upsert of (A, y) yields a list with exactly one
\* entry for A, with password y, the other entries as they were; and an
\* upsert repeated with the same ssid and password leaves the list as it was.
C22_UpsertLastWriteWins ==
    [][(/\ Upserted
        /\ EntriesFor(res.was, res.ssid) = {}
        /\ Upserted'
        /\ res'.was = res.body
        /\ res'.ssid = res.ssid)
        => /\ Cardinality(EntriesFor(res'.body, res.ssid)) = 1
           /\ \A k \in EntriesFor(res'.body, res.ssid) :
                res'.body[k].password = res'.password
           /\ Len(res'.body) = Len(res.body)
           /\ \A k \in DOMAIN res.body :
                res.body[k].ssid # res.ssid => res'.body[k] = res.body[k]
           /\ wifiFile' = JsonArray(res'.body)
           /\ res'.password = res.password =>
                (res'.body = res.body /\ wifiFile' = wifiFile)]_vars

\* (A, y) upserted into a list that held (A, x) and another network.
C22_Witness ==
    /\ Upserted
    /\ res.ssid = "A"
    /\ res.password = "y"
    /\ Len(res.was) = 2
    /\ \E k \in DOMAIN res.was : res.was[k] = [ssid |-> "A", password |-> "x"]
    /\ Len(res.body) = 2
    /\ \E k \in DOMAIN res.body : res.body[k] = [ssid |-> "A", password |-> "y"]

\* The list wifi.json holds.
StoredList == LoadWifiList(wifiFile)

\* C23: after any sequence of upserts and removals, starting from an absent
\* file or a list without duplicates, no two entries of the stored list (or
\* of a returned list) have the same ssid.
C23_SsidsUnique ==
    /\ \A i, j \in DOMAIN StoredList :
        StoredList[i].ssid = StoredList[j].ssid => i = j
    /\ (res.op \in {"put wifi", "delete wifi", "get wifi"} /\ res.code = 200)
        => \A i, j \in DOMAIN res.body : res.body[i].ssid = res.body[j].ssid => i = j

\* A list of three networks, after an upsert that changed the password of one
\* of them.
C23_Witness ==
    /\ Len(StoredList) = 3
    /\ Upserted
    /\ EntriesFor(res.was, res.ssid) # {}
    /\ res.was # res.body

\* The latest request was a removal that the server carried out.
Removed == res.op = "delete wifi" /\ res.code = 200

\* C24: removing an ssid that is not in the list succeeds (200) and returns,
\* and leaves stored, a list equal to the list before the call; removing an
\* ssid that is in the list returns, and stores, the list without its entry
\* and with every other entry kept, in order.
C24_RemoveAbsentIsNoOp ==
    Removed =>
        /\ StoredList = res.body
        /\ EntriesFor(res.was, res.ssid) = {} => res.body = res.was
        /\ EntriesFor(res.was, res.ssid) # {} =>
            /\ EntriesFor(res.body, res.ssid) = {}
            /\ Len(res.body) = Len(res.was) - Cardinality(EntriesFor(res.was, res.ssid))
            /\ \A k \in DOMAIN res.was :
                res.was[k].ssid # res.ssid =>
                    \E j \in DOMAIN res.body : res.body[j] = res.was[k]
            /\ \A j, k \in DOMAIN res.body :
                j < k => \E a, b \in DOMAIN res.was :
                            a < b /\ res.was[a] = res.body[j] /\ res.was[b] = res.body[k]

\* The removal of an ssid that a list of two networks does not hold.
C24_Witness ==
    /\ Removed
    /\ Len(res.was) = 2
    /\ EntriesFor(res.was, res.ssid) = {}
    /\ res.body = res.was

\* What a refused request of the credential list gets and leaves: 403, the
\* text "Invalid key" and nothing of the list, the file as it was.
Refused ==
    /\ res'.code = 403
    /\ res'.body = Str("Invalid key")
    /\ wifiFile' = wifiFile

\* C25: every read, upsert and removal of the credential list whose key is
\* not the configured secret is answered 403 with no part of the list, and
\* leaves the stored list unchanged.
C25_WifiNeedsKey ==
    [][/\ \A k \in Keys :
            (k # envApiKey /\ ReadWifi([key |-> k])) => Refused
       /\ \A k \in Keys, b \in WifiBodies :
            (k # envApiKey /\ PutWifi([key |-> k], b)) => Refused
       /\ \A k \in Keys, s \in Ssids :
            (k # envApiKey /\ DeleteWifi([key |-> k], s)) => Refused]_vars

\* A refused read of a list that holds networks.
C25_Witness ==
    /\ res.op = "get wifi"
    /\ res.code = 403
    /\ StoredList # <<>>

\* C26: a request to a key-protected endpoint that carries no key parameter
\* is answered 403 whatever the server's secret is, also when none is
\* configured, and changes nothing.
C26_NoKeyAlwaysRejected ==
    [][/\ ReadWifi([key |-> Undefined]) => Refused
       /\ \A b \in WifiBodies : PutWifi([key |-> Undefined], b) => Refused
       /\ \A s \in Ssids : DeleteWifi([key |-> Undefined], s) => Refused
       /\ \A q \in OtherKeyQueries :
            (q.key = Undefined /\ ReceiveData(q, TRUE))
                => (res'.code = 403 /\ latestGPSData' = latestGPSData)]_vars

----------------------------------------------------------------------------
(* Storage failures of the server *)

\* C27: when the write of latest-gps.json fails during an accepted ingest,
\* the request is still answered 200 {status: "ok"}, latestGPSData holds the
\* new state (the packet's time and fix flag, and for a fix packet its
\* position and fix time) while the document stays as it was, and a read
\* that follows in the same process returns latestGPSData, not the document.
C27_WriteFailureKeepsNewState ==
    [][/\ \A q \in FaultQueries :
            (q.key = envApiKey /\ ReceiveData(q, FALSE))
                => /\ res'.code = 200
                   /\ res'.body.status = "ok"
                   /\ gpsFile' = gpsFile
                   /\ latestGPSData' # Null
                   /\ latestGPSData'.lastPacketTimestamp = Iso(now)
                   /\ latestGPSData'.fix = IsFix(q)
                   /\ IsFix(q) =>
                        /\ Position(latestGPSData') =
                             <<Stated(q.lat), Stated(q.lng), Stated(q.speed), Stated(q.alt)>>
                        /\ latestGPSData'.lastFixTimestamp = Iso(now)
       /\ (latestGPSData # Null /\ GetLatestGps)
            => (res'.code = 200 /\ res'.body = ToJson(latestGPSData))]_vars

\* A read that returned a state newer than the document: the write of the
\* latest accepted packet had failed.
C27_Witness ==
    /\ res.op = "latest-gps"
    /\ res.code = 200
    /\ accepted = "this run"
    /\ latestGPSData # Null
    /\ res.body = ToJson(latestGPSData)
    /\ gpsFile # ToJson(latestGPSData)
    /\ res.body.lat = Num(2)

----------------------------------------------------------------------------
(* Storage failures of the device *)

\* C28: a boot at which the flash file system fails to mount does not halt
\* the device: setup runs on with an empty list of learned networks, tries
\* the fallback network (and only it), and returns, so that loop() runs.
C28_MountFailureDegrades ==
    (devLog.step = "setup" /\ ~spiffsMounted) =>
        /\ devLog.before.dynamicNetworks = <<>>
        /\ Rounds = {1}
        /\ Len(Tries(Events)) = 1
        /\ Tries(Events)[1].kind = "fallback"
        /\ Tries(Events)[1].net = DefaultNet
        /\ devPc = "loop"

\* A boot with a failed mount on a device whose flash holds a list: the
\* fallback was tried and connected.
C28_Witness ==
    /\ devLog.step = "setup"
    /\ ~spiffsMounted
    /\ spiffsWifi # NoFile
    /\ Tries(Events) # <<>>
    /\ Tries(Events)[1].ok
    /\ devPc = "loop"

\* C29: at the start of every connection round, after backoff in particular,
\* the list the round goes through is the list the device's flash holds at
\* that moment (none for no file), also after a fetch whose save failed or a
\* boot whose load failed.
C29_RoundUsesStoredList ==
    \A i \in Rounds : Events[i].list = LoadWifiList(devLog.before.spiffsWifi)

----------------------------------------------------------------------------
(* Concurrent requests *)

\* The complete records a read may return: while no handler runs, the record
\* the latest finished ingest amounts to; while an ingest handler runs, the
\* record before it and the record after it (Null: no record, 404).
CompleteRecords ==
    LET r == eventLoop.running
    IN  IF r = Idle THEN {eventLoop.committed}
        ELSE {r.pre, SaveLatestGPS(r.pre, r.packet, r.at)}

\* C30: a read of the latest fix that overlaps ingest requests returns the
\* complete record before an ingest or the complete record after it, never
\* a record that mixes fields of both, under every interleaving of arrivals,
\* handler starts, handler statements and reads.
C30_ReadsAreNotTorn ==
    [][GetLatestGps =>
        IF res'.code = 200
        THEN \E c \in CompleteRecords \ {Null} : res'.body = ToJson(c)
        ELSE Null \in CompleteRecords]_vars

\* A read answered with the record of a finished fix ingest while another
\* ingest request was in flight.
C30_Witness ==
    /\ res.op = "latest-gps"
    /\ res.code = 200
    /\ res.body.fix = TRUE
    /\ eventLoop.committed # Null
    /\ eventLoop.queue # {}

----------------------------------------------------------------------------
(* Further properties of the server *)

\* The records the server holds: latestGPSData and the parsed document.
StoredRecords == {latestGPSData, gpsFile} \ {Null, NoFile}

\* C34: whenever a stored record says fix, its lat, lng, speed and alt are
\* finite numbers and its lastFixTimestamp equals its lastPacketTimestamp.
C34_FixHasPosition ==
    \A rec \in StoredRecords :
        ("fix" \in DOMAIN rec /\ rec.fix = TRUE)
            => /\ \A f \in {"lat", "lng", "speed", "alt"} : "num" \in DOMAIN rec[f]
               /\ rec.lastFixTimestamp = rec.lastPacketTimestamp

\* C31: after every accepted ingest whose write succeeds, and so before the
\* next read is served, latest-gps.json holds latestGPSData field for field.
C31_DocumentEqualsMemory ==
    [][\A q \in Queries :
        (q.key = envApiKey /\ ReceiveData(q, TRUE))
            => /\ DOMAIN gpsFile' = DOMAIN latestGPSData'
               /\ \A f \in DOMAIN latestGPSData' : gpsFile'[f] = latestGPSData'[f]]_vars

----------------------------------------------------------------------------
(* Further properties of the device *)

\* The HTTP requests (fetches of the list, pushes) of the device's latest step.
Requests == {i \in DOMAIN Events : Events[i].ev \in {"fetch", "push"}}

\* C32: in every iteration of loop() the device issues at most one HTTP
\* request: neither part of the iteration issues two, and an iteration whose
\* reconnect part has issued one issues none in its report part.
C32_OneRequestPerIteration ==
    [][/\ devLog'.step \in {"connect", "report"} => Cardinality(Requests') <= 1
       /\ (devPc = "report" /\ devPc' = "loop" /\ Requests # {}) => Requests' = {}]_vars

\* C33: every connection attempt terminates, at the latest when its 10 s
\* have passed, every connection round terminates, and every iteration of
\* the control loop that has started comes back to the top of loop().
C33_AttemptsTerminate ==
    /\ (attempt.pc = "poll") ~> (attempt.pc # "poll")
    /\ (devPc = "connect") ~> (devPc = "report")
    /\ (devPc \in {"connect", "report"}) ~> (devPc = "loop")
    /\ [](attempt.pc = "poll" =>
            (now - bootAt) - attempt.start <= ConnectTimeoutMs)

\* An attempt on a network that never connects, at its 10 s.
C33_Witness ==
    /\ attempt.pc = "poll"
    /\ attempt.join = JoinNever
    /\ (now - bootAt) - attempt.start = ConnectTimeoutMs
    /\ attempt.todo # <<>>

\* C35: whenever the device's WiFi is connected, inBackoff is false.
C35_ConnectedMeansNoBackoff ==
    wifiStatus # "none" => ~inBackoff

\* A fetch that does not succeed: the device is not connected, the status is
\* not 200, or the body is not a JSON array.
Unsuccessful(reply) ==
    wifiStatus = "none" \/ reply.code # 200 \/ ~reply.isArray

\* C36: a credential fetch that does not succeed leaves dynamicNetworks and
\* the list on flash as they were.
C36_FailedFetchChangesNothing ==
    [][\A reply \in FetchReplies :
        (Unsuccessful(reply) /\ DeviceFetch(reply))
            => /\ dynamicNetworks' = dynamicNetworks
               /\ spiffsWifi' = spiffsWifi]_vars

\* C36 witness: a connected device holding two networks got a 200 whose body
\* is not a JSON array, and holds them still.
C36_Witness ==
    /\ devLog.step = "fetch"
    /\ devLog.before.wifiStatus # "none"
    /\ devLog.reply.code = 200 /\ ~devLog.reply.isArray
    /\ devLog.before.dynamicNetworks = <<HomeNet, WorkNet>>
    /\ dynamicNetworks = <<HomeNet, WorkNet>>
    /\ spiffsWifi = JsonArray(<<HomeNet, WorkNet>>)

\* The stored list shows the effect of a request that was carried out.
Reflected(rq) ==
    IF rq.method = "put"
    THEN \E k \in DOMAIN StoredList :
            StoredList[k] = [ssid |-> rq.ssid.str, password |-> rq.password.str]
    ELSE EntriesFor(StoredList, rq.ssid.str) = {}

\* C37: no credential update is lost under concurrent requests: under every
\* interleaving of arrivals, handler starts and handler statements of
\* authorized upserts and removals of distinct ssids, the stored list
\* reflects every request that has been carried out.
C37_NoLostUpdate ==
    \A c \in eventLoop.committed : Reflected(c.rq)

\* C37 witness: the upsert of A was answered while the removal of C was
\* waiting, both have been carried out, and the list holds A and not C.
C37_Witness ==
    /\ eventLoop.queue = {} /\ eventLoop.running = Idle
    /\ \E c, d \in eventLoop.committed :
        /\ c.rq.method = "put" /\ c.rq.ssid = Str("A")
        /\ d.rq.method = "delete"
        /\ d.rq \in c.with
    /\ \E k \in DOMAIN StoredList : StoredList[k].ssid = "A"
    /\ EntriesFor(StoredList, "C") = {}
    /\ Len(StoredList) = 2

====
